---------------------------- MODULE Spec2Model ----------------------------
(***************************************************************************)
(* Model of the multi-tenant auth service (src/app).                       *)
(*                                                                         *)
(* Every request handler is a coroutine that suspends at each awaited      *)
(* store call; between two awaits it runs without interruption.  A handler *)
(* is therefore a sequence of steps, one per store call, and steps of      *)
(* different in-flight requests interleave freely.  A Document read gives  *)
(* the handler a private copy; Document.save() writes every field of that  *)
(* copy back under the document's _id.                                     *)
(*                                                                         *)
(* Time is counted in ticks of ACCESS_TOKEN_EXPIRE_MINUTES minutes; every  *)
(* handler step reads the clock (datetime.utcnow()) as `now`.              *)
(***************************************************************************)
EXTENDS Integers, Sequences, FiniteSets, TLC

(***************************************************************************)
(* Bounds of the model.                                                    *)
(***************************************************************************)
MaxTimeLogin == 2
MaxTimeReset == 4
MaxResetTokens == 1
MaxTimeBearer == 1
MaxTimeAccount == 1
MaxApiKeys == 1
MaxUsers == 3
MaxTimeKeyGate == 2
MaxStem == 7
MaxFailedLogins == 1

(***************************************************************************)
(* Settings (src/app/config.py), in minutes, and their length in ticks.    *)
(***************************************************************************)
ACCESS_TOKEN_EXPIRE_MINUTES == 15
REFRESH_TOKEN_EXPIRE_DAYS == 7
LOCKOUT_DURATION_MINUTES == 30
PASSWORD_MIN_LENGTH == 8
RESET_TOKEN_EXPIRE_HOURS == 1

MinutesPerTick == ACCESS_TOKEN_EXPIRE_MINUTES
AccessTicks == ACCESS_TOKEN_EXPIRE_MINUTES \div MinutesPerTick
RefreshTicks == (REFRESH_TOKEN_EXPIRE_DAYS * 24 * 60) \div MinutesPerTick
LockoutTicks == LOCKOUT_DURATION_MINUTES \div MinutesPerTick
ResetTicks == (RESET_TOKEN_EXPIRE_HOURS * 60) \div MinutesPerTick

\* Optional[datetime] = None
NoTime == -1

Procs == {"p1", "p2"}

VARIABLES
  now,          \* the clock, in ticks
  users,        \* the users collection: _id -> User document
  tokens,       \* the tokens collection: _id -> Token document
  api_keys,     \* the api_keys collection: _id -> APIKey document
  tenants,      \* the tenants collection: tenant_id -> Tenant document
  redis_client, \* whether the Redis client was connected at start-up
  redis_down,   \* whether calls to Redis currently raise
  utc_offset,   \* the server's local time minus UTC, in ticks
  settings,     \* the Settings object: attributes read from the environment
  blacklist,    \* the Redis keys blacklist:<tenant>:<token>, with their expiry
  pc,           \* per request slot: the step its handler is suspended at
  req,          \* per request slot: the request in flight
  loc,          \* per request slot: the handler's private document copies
  last,         \* the response sent by the step just taken, with its request
  held,         \* the tokens of the last successful login
  failures,     \* history: per user, failed logins completed since the last
                \* reset_failed_attempts
  completions   \* history: per reset token, the reset-password completions
                \* that succeeded with it

vars == <<now, users, tokens, api_keys, tenants, redis_client, redis_down, utc_offset,
          settings, blacklist, pc, req, loc, last, held, failures, completions>>

\* what the handlers of login, forgot-password and reset-password never touch
side_vars ==
  <<api_keys, tenants, redis_client, redis_down, utc_offset, settings, blacklist>>

(***************************************************************************)
(* Tenant configuration: settings.TENANTS.  "kb" is the tenant of the      *)
(* source; "t2" is a second configured tenant that overrides nothing and   *)
(* enables only password_reset.                                            *)
(***************************************************************************)
Tenants == {"kb", "t2"}

TENANTS ==
  [t \in Tenants |->
     IF t = "kb"
     THEN [name |-> "Knowledgebase",
           description |-> "Main KB",
           settings |->
             [password_policy |-> [min_length |-> 8, require_special_chars |-> TRUE],
              features |-> {"api_keys", "password_reset", "email_verification"},
              rate_limits |-> [login_attempts |-> 5, api_calls_per_hour |-> 1000]]]
     ELSE [name |-> "Second", settings |-> [features |-> {"password_reset"}]]]

get_tenant_config(tenant_id) == TENANTS[tenant_id]

\* the Settings attributes the environment can set, with their defaults
DefaultSettings == [MAX_LOGIN_ATTEMPTS |-> 5]

\* limit_type.upper()
upper(limit_type) ==
  CASE limit_type = "login_attempts" -> "LOGIN_ATTEMPTS"
    [] limit_type = "api_calls_per_hour" -> "API_CALLS_PER_HOUR"

\* getattr(settings, name, default)
getattr(object, name, default) ==
  IF name \in DOMAIN object THEN object[name] ELSE default

\* the default is getattr(settings, limit_type.upper(), 5): Settings has no
\* attribute LOGIN_ATTEMPTS, so it is the literal 5.
get_rate_limit(tenant_id, limit_type) ==
  LET s == get_tenant_config(tenant_id).settings
  IN IF "rate_limits" \in DOMAIN s /\ limit_type \in DOMAIN s.rate_limits
     THEN s.rate_limits[limit_type]
     ELSE getattr(settings, upper(limit_type), 5)

\* mutant: every feature is enabled for every tenant
every_feature_enabled(tenant_id, feature) == TRUE

is_feature_enabled(tenant_id, feature) ==
  LET s == get_tenant_config(tenant_id).settings
  IN IF "features" \in DOMAIN s THEN feature \in s.features ELSE FALSE

\* the default is the policy of a tenant that configures none
get_password_policy(tenant_id) ==
  LET s == get_tenant_config(tenant_id).settings
  IN IF "password_policy" \in DOMAIN s
     THEN s.password_policy
     ELSE [min_length |-> PASSWORD_MIN_LENGTH, require_special_chars |-> FALSE,
           require_numbers |-> FALSE, require_uppercase |-> FALSE,
           require_2fa |-> FALSE]

(***************************************************************************)
(* Passwords are strings, written as sequences of characters.              *)
(***************************************************************************)
PwdGood == <<"A", "b", "c", "1", "2", "3", "4", "5", "!">>
PwdWrong == <<"X", "y", "z", "9", "8", "7", "6", "5", "?">>
PwdNew == <<"l", "o", "n", "g", "e", "n", "o", "u", "g", "h", "!", "1">>
PwdNoSpecial == <<"l", "o", "n", "g", "e", "n", "o", "u", "g", "h", "1">>
PwdShort == <<"s", "h", "o", "r", "t", "1", "!">>

Emails == {"a@x.com", "nobody@x.com"}

\* bcrypt.gensalt(): a random salt per call
Salts == {"s1", "s2"}

\* bcrypt.hashpw(password, salt): the salt is part of the hash
bcrypt_hashpw(password, salt) == <<"bcrypt", salt, password>>

hash_password(password, salt) == bcrypt_hashpw(password, salt)

\* bcrypt.checkpw: rehash with the salt stored in the hash and compare
verify_password(plain_password, hashed_password) ==
  bcrypt_hashpw(plain_password, hashed_password[2]) = hashed_password

(***************************************************************************)
(* Session tokens (JWT).  jwt.encode signs the payload with SECRET_KEY;    *)
(* jwt.decode checks the signature and rejects a token whose exp is        *)
(* before the current time.                                                *)
(***************************************************************************)
SECRET_KEY == "secret"

NoPayload == [sub |-> 0]

\* a compact JWT: it begins with its base64 header, carries the claims and
\* is signed with the key
jwt_encode(payload, key) == [prefix |-> "eyJ", payload |-> payload, sig |-> key]

\* jwt.decode(token, key): JWTError unless the string is a JWT signed with
\* the key whose exp is not before the current time
jwt_decode(token, key, t) ==
  IF token.prefix = "eyJ" /\ token.sig = key /\ ~(token.payload.exp < t)
  THEN token.payload
  ELSE NoPayload

create_access_token(data, t) ==
  jwt_encode([sub |-> data.sub, tenant_id |-> data.tenant_id,
              exp |-> t + AccessTicks, type |-> "access"], SECRET_KEY)

create_refresh_token(data, t) ==
  jwt_encode([sub |-> data.sub, tenant_id |-> data.tenant_id,
              exp |-> t + RefreshTicks, type |-> "refresh"], SECRET_KEY)

verify_token(token, t) == jwt_decode(token, SECRET_KEY, t)

\* generate_api_key(): "ak_" followed by random material v
generate_api_key(v) == [prefix |-> "ak_", body |-> v]

\* hashlib.sha256(api_key).hexdigest()
hash_api_key(api_key) == <<"sha256", api_key.body>>

NoTokens == [issued |-> FALSE]

NoUser == [id |-> 0]
NoToken == [id |-> 0]
NoKey == [id |-> 0]
NoLoc == [user |-> NoUser, token |-> NoToken, key |-> NoKey]
NoReq == [op |-> "none"]

\* no response was sent by the step just taken
NoLast ==
  [req |-> NoReq, status |-> 0, detail |-> "", principal |-> NoUser, note |-> ""]

User(id, tenant_id, email, password_hash) ==
  [id |-> id, tenant_id |-> tenant_id, email |-> email,
   password_hash |-> password_hash, is_active |-> TRUE, is_verified |-> TRUE,
   failed_login_attempts |-> 0, locked_until |-> NoTime, last_login |-> NoTime]

(***************************************************************************)
(* AuthService (src/app/core/auth.py)                                      *)
(***************************************************************************)
\* mutant: the lookup matches the email in any tenant
get_user_by_email_any_tenant(tenant_id, email) ==
  LET m == {i \in DOMAIN users : users[i].email = email}
  IN IF m = {} THEN NoUser ELSE users[CHOOSE i \in m : \A j \in m : i <= j]

\* User.find_one(User.tenant_id == tenant, User.email == email)
get_user_by_email(tenant_id, email) ==
  LET m == {i \in DOMAIN users :
              users[i].tenant_id = tenant_id /\ users[i].email = email}
  IN IF m = {} THEN NoUser ELSE users[CHOOSE i \in m : \A j \in m : i <= j]

\* User.find_one(User.tenant_id == tenant, User.id == user_id)
get_user_by_id(tenant_id, user_id) ==
  IF user_id \in DOMAIN users /\ users[user_id].tenant_id = tenant_id
  THEN users[user_id]
  ELSE NoUser

\* mutant: the lock never elapses
is_user_locked_forever(user, t) == user.locked_until # NoTime

is_user_locked(user, t) ==
  user.locked_until # NoTime /\ user.locked_until > t

\* mutant: a failure after an elapsed lock starts a fresh count
increment_afresh_after_expiry(user, tenant_id, t) ==
  LET elapsed == user.locked_until # NoTime /\ user.locked_until <= t
      n == IF elapsed THEN 1 ELSE user.failed_login_attempts + 1
      max_attempts == get_rate_limit(tenant_id, "login_attempts")
  IN [user EXCEPT !.failed_login_attempts = n,
                  !.locked_until = IF n >= max_attempts
                                   THEN t + LockoutTicks
                                   ELSE IF elapsed THEN NoTime
                                   ELSE user.locked_until]

\* the document as increment_failed_attempts leaves it before save()
increment_failed_attempts(user, tenant_id, t) ==
  LET n == user.failed_login_attempts + 1
      max_attempts == get_rate_limit(tenant_id, "login_attempts")
  IN [user EXCEPT !.failed_login_attempts = n,
                  !.locked_until = IF n >= max_attempts
                                   THEN t + LockoutTicks
                                   ELSE user.locked_until]

\* the document as reset_failed_attempts leaves it before save()
reset_failed_attempts(user, t) ==
  [user EXCEPT !.failed_login_attempts = 0,
               !.locked_until = NoTime,
               !.last_login = t]

\* Document.save(): $set of every field of the copy, keyed by _id
save_user(user) == users' = [users EXCEPT ![user.id] = user]

\* the handler of slot p answers request r; `user` is the User the request
\* was served for, `case` the case the request met
Respond(p, r, status, detail, user, case) ==
  /\ last' = [req |-> r, status |-> status, detail |-> detail,
              principal |-> user, note |-> case]
  /\ pc' = [pc EXCEPT ![p] = "idle"]
  /\ req' = [req EXCEPT ![p] = NoReq]
  /\ loc' = [loc EXCEPT ![p] = NoLoc]

\* the handler of slot p, serving request r, awaits the store call `at`
Suspend(p, r, at, copies) ==
  /\ last' = NoLast
  /\ pc' = [pc EXCEPT ![p] = at]
  /\ req' = [req EXCEPT ![p] = r]
  /\ loc' = [loc EXCEPT ![p] = copies]

(***************************************************************************)
(* POST /login (src/app/api/auth.py)                                       *)
(***************************************************************************)
\* mutant: an unknown email is answered with its own error
LoginStartUserNotFound(p, tenant_id, email, password) ==
  /\ pc[p] = "idle"
  /\ LET r == [op |-> "login", tenant_id |-> tenant_id, email |-> email,
               password |-> password]
         user == get_user_by_email(tenant_id, email)
     IN IF user = NoUser
        THEN Respond(p, r, 404, "User not found", NoUser, "")
        ELSE IF is_user_locked(user, now)
        THEN Respond(p, r, 423,
                     "Account is locked due to too many failed attempts",
                     NoUser, "")
        ELSE IF ~verify_password(password, user.password_hash)
        THEN Suspend(p, r, "login_increment", [NoLoc EXCEPT !.user = user])
        ELSE IF ~user.is_active
        THEN Respond(p, r, 401, "Account is inactive", NoUser, "")
        ELSE Suspend(p, r, "login_reset", [NoLoc EXCEPT !.user = user])
  /\ UNCHANGED <<now, users, tokens, held, failures, completions, side_vars>>

\* mutant: the password is verified before the lock is checked
LoginStartVerifyFirst(p, tenant_id, email, password) ==
  /\ pc[p] = "idle"
  /\ LET r == [op |-> "login", tenant_id |-> tenant_id, email |-> email,
               password |-> password]
         user == get_user_by_email(tenant_id, email)
     IN IF user = NoUser
        THEN Respond(p, r, 401, "Invalid credentials", NoUser, "")
        ELSE IF ~verify_password(password, user.password_hash)
        THEN Suspend(p, r, "login_increment", [NoLoc EXCEPT !.user = user])
        ELSE IF is_user_locked(user, now)
        THEN Respond(p, r, 423,
                     "Account is locked due to too many failed attempts",
                     NoUser, "")
        ELSE IF ~user.is_active
        THEN Respond(p, r, 401, "Account is inactive", NoUser, "")
        ELSE Suspend(p, r, "login_reset", [NoLoc EXCEPT !.user = user])
  /\ UNCHANGED <<now, users, tokens, held, failures, completions, side_vars>>

\* mutant: a deactivated account is counted as a failed attempt
LoginStartInactiveAsFailure(p, tenant_id, email, password) ==
  /\ pc[p] = "idle"
  /\ LET r == [op |-> "login", tenant_id |-> tenant_id, email |-> email,
               password |-> password]
         user == get_user_by_email(tenant_id, email)
     IN IF user = NoUser
        THEN Respond(p, r, 401, "Invalid credentials", NoUser, "")
        ELSE IF is_user_locked(user, now)
        THEN Respond(p, r, 423,
                     "Account is locked due to too many failed attempts",
                     NoUser, "")
        ELSE IF ~verify_password(password, user.password_hash) \/ ~user.is_active
        THEN Suspend(p, r, "login_increment", [NoLoc EXCEPT !.user = user])
        ELSE Suspend(p, r, "login_reset", [NoLoc EXCEPT !.user = user])
  /\ UNCHANGED <<now, users, tokens, held, failures, completions, side_vars>>

\* mutant: an attempt on a locked account is recorded before it is refused
LoginStartLockedCounts(p, tenant_id, email, password) ==
  /\ pc[p] = "idle"
  /\ LET r == [op |-> "login", tenant_id |-> tenant_id, email |-> email,
               password |-> password]
         user == get_user_by_email(tenant_id, email)
     IN IF user = NoUser
        THEN Respond(p, r, 401, "Invalid credentials", NoUser, "")
        ELSE IF is_user_locked(user, now)
                  \/ ~verify_password(password, user.password_hash)
        THEN Suspend(p, r, "login_increment", [NoLoc EXCEPT !.user = user])
        ELSE IF ~user.is_active
        THEN Respond(p, r, 401, "Account is inactive", NoUser, "")
        ELSE Suspend(p, r, "login_reset", [NoLoc EXCEPT !.user = user])
  /\ UNCHANGED <<now, users, tokens, held, failures, completions, side_vars>>

\* lookup, lock check and password check, up to the first save()
LoginStart(p, tenant_id, email, password) ==
  /\ pc[p] = "idle"
  /\ LET r == [op |-> "login", tenant_id |-> tenant_id, email |-> email,
               password |-> password]
         user == get_user_by_email(tenant_id, email)
     IN IF user = NoUser
        THEN Respond(p, r, 401, "Invalid credentials", NoUser, "")
        ELSE IF is_user_locked(user, now)
        THEN Respond(p, r, 423,
                     "Account is locked due to too many failed attempts",
                     NoUser, "")
        ELSE IF ~verify_password(password, user.password_hash)
        THEN Suspend(p, r, "login_increment", [NoLoc EXCEPT !.user = user])
        ELSE IF ~user.is_active
        THEN Respond(p, r, 401, "Account is inactive", NoUser, "")
        ELSE Suspend(p, r, "login_reset", [NoLoc EXCEPT !.user = user])
  /\ UNCHANGED <<now, users, tokens, held, failures, completions, side_vars>>

\* increment_failed_attempts(user) and the 401 that follows it
LoginIncrement(p) ==
  /\ pc[p] = "login_increment"
  /\ save_user(increment_failed_attempts(loc[p].user, req[p].tenant_id, now))
  /\ failures' = [failures EXCEPT ![loc[p].user.id] = @ + 1]
  /\ Respond(p, req[p], 401, "Invalid credentials", NoUser, "")
  /\ UNCHANGED <<now, tokens, held, completions, side_vars>>

\* reset_failed_attempts(user), token issuance and the TokenResponse
LoginReset(p) ==
  /\ pc[p] = "login_reset"
  /\ save_user(reset_failed_attempts(loc[p].user, now))
  /\ failures' = [failures EXCEPT ![loc[p].user.id] = 0]
  /\ LET data == [sub |-> loc[p].user.id, tenant_id |-> req[p].tenant_id]
     IN held' = [issued |-> TRUE,
                 access_token |-> create_access_token(data, now),
                 refresh_token |-> create_refresh_token(data, now)]
  /\ Respond(p, req[p], 200, "TokenResponse", loc[p].user, "")
  /\ UNCHANGED <<now, tokens, completions, side_vars>>

Tick(limit) ==
  /\ now < limit
  /\ now' = now + 1
  /\ last' = NoLast
  /\ UNCHANGED <<users, tokens, pc, req, loc, held, failures, completions,
                 side_vars>>

(***************************************************************************)
(* validate_password_policy (src/app/core/auth.py)                         *)
(***************************************************************************)
\* the class [!@#$%^&*(),.?":{}|<>] of the special-character rule
SpecialChars ==
  {"!", "@", "#", "$", "%", "^", "&", "*", "(", ")", ",", ".", "?", "\"",
   ":", "{", "}", "|", "<", ">"}

Digits == {"0", "1", "2", "3", "4", "5", "6", "7", "8", "9"}

UpperCase ==
  {"A", "B", "C", "D", "E", "F", "G", "H", "I", "J", "K", "L", "M", "N",
   "O", "P", "Q", "R", "S", "T", "U", "V", "W", "X", "Y", "Z"}

\* re.search(class, password)
re_search(class, password) ==
  \E i \in 1..Len(password) : password[i] \in class

\* policy.get(key, default)
policy_get(policy, key, default) ==
  IF key \in DOMAIN policy THEN policy[key] ELSE default

\* mutant: the special-character rule is checked before the length
validate_special_first(policy, password) ==
  LET min_length == policy_get(policy, "min_length", PASSWORD_MIN_LENGTH)
  IN IF policy_get(policy, "require_special_chars", FALSE)
        /\ ~re_search(SpecialChars, password)
     THEN [ok |-> FALSE,
           message |-> "Password must contain at least one special character"]
     ELSE IF Len(password) < min_length
     THEN [ok |-> FALSE,
           message |-> "Password must be at least " \o ToString(min_length)
                         \o " characters long"]
     ELSE IF policy_get(policy, "require_numbers", FALSE)
             /\ ~re_search(Digits, password)
     THEN [ok |-> FALSE,
           message |-> "Password must contain at least one number"]
     ELSE IF policy_get(policy, "require_uppercase", FALSE)
             /\ ~re_search(UpperCase, password)
     THEN [ok |-> FALSE,
           message |-> "Password must contain at least one uppercase letter"]
     ELSE [ok |-> TRUE, message |-> "Password meets policy requirements"]

\* the body of validate_password_policy below its first line, for a policy
validate_against_policy(policy, password) ==
  LET min_length == policy_get(policy, "min_length", PASSWORD_MIN_LENGTH)
  IN IF Len(password) < min_length
     THEN [ok |-> FALSE,
           message |-> "Password must be at least " \o ToString(min_length)
                         \o " characters long"]
     ELSE IF policy_get(policy, "require_special_chars", FALSE)
             /\ ~re_search(SpecialChars, password)
     THEN [ok |-> FALSE,
           message |-> "Password must contain at least one special character"]
     ELSE IF policy_get(policy, "require_numbers", FALSE)
             /\ ~re_search(Digits, password)
     THEN [ok |-> FALSE,
           message |-> "Password must contain at least one number"]
     ELSE IF policy_get(policy, "require_uppercase", FALSE)
             /\ ~re_search(UpperCase, password)
     THEN [ok |-> FALSE,
           message |-> "Password must contain at least one uppercase letter"]
     ELSE [ok |-> TRUE, message |-> "Password meets policy requirements"]

\* policy = self.tenant_manager.get_password_policy(self.tenant_id)
validate_password_policy(tenant_id, password) ==
  validate_against_policy(get_password_policy(tenant_id), password)

(***************************************************************************)
(* POST /register (src/app/api/auth.py)                                    *)
(***************************************************************************)
\* uuid4(): an _id no stored user carries
FreshUserId ==
  CHOOSE v \in 1..(Cardinality(DOMAIN users) + 1) : v \notin DOMAIN users

\* the lookup by (tenant, email) and the policy check, up to user.insert()
RegisterStart(p, tenant_id, email, password) ==
  /\ pc[p] = "idle"
  /\ Cardinality(DOMAIN users)
       + Cardinality({q \in Procs : pc[q] = "register_insert"}) < MaxUsers
  /\ LET r == [op |-> "register", tenant_id |-> tenant_id, email |-> email,
               password |-> password]
         verdict == validate_password_policy(tenant_id, password)
     IN IF get_user_by_email(tenant_id, email) # NoUser
        THEN Respond(p, r, 400, "Email already registered in this tenant",
                     NoUser, "")
        ELSE IF ~verdict.ok
        THEN Respond(p, r, 400, verdict.message, NoUser, "")
        ELSE Suspend(p, r, "register_insert", NoLoc)
  /\ UNCHANGED <<now, users, tokens, held, failures, completions, side_vars>>

\* user.insert(): the collection has no unique index, the insert succeeds
RegisterInsert(p) ==
  /\ pc[p] = "register_insert"
  /\ \E salt \in Salts :
       LET v == FreshUserId
           user == User(v, req[p].tenant_id, req[p].email,
                        hash_password(req[p].password, salt))
       IN /\ users' = (v :> user) @@ users
          /\ failures' = (v :> 0) @@ failures
          /\ Respond(p, req[p], 200, "UserResponse", user, "")
  /\ UNCHANGED <<now, tokens, held, completions, side_vars>>

(***************************************************************************)
(* POST /forgot-password (src/app/api/auth.py)                             *)
(***************************************************************************)
ForgotMessage == "If the email exists, a reset link has been sent"

\* secrets.token_urlsafe(32): a value no stored token carries
FreshTokenValue == CHOOSE v \in 1..(Cardinality(DOMAIN tokens) + 1) : v \notin DOMAIN tokens

\* lookup of the user; an unknown email is answered at once
ForgotStart(p, tenant_id, email) ==
  /\ pc[p] = "idle"
  /\ Cardinality(DOMAIN tokens) + Cardinality({q \in Procs : pc[q] = "forgot_insert"})
       < MaxResetTokens
  /\ LET r == [op |-> "forgot", tenant_id |-> tenant_id, email |-> email]
         user == get_user_by_email(tenant_id, email)
     IN IF user = NoUser
        THEN Respond(p, r, 200, ForgotMessage, NoUser, "")
        ELSE Suspend(p, r, "forgot_insert", [NoLoc EXCEPT !.user = user])
  /\ UNCHANGED <<now, users, tokens, held, failures, completions, side_vars>>

\* send_password_reset_email(...): True, or False on any failure
EmailOutcomes == {"email_sent", "email_failed"}

\* mutant: a failed delivery fails the request
ForgotInsertEmailFatal(p) ==
  /\ pc[p] = "forgot_insert"
  /\ LET v == FreshTokenValue
     IN /\ tokens' = (v :> [id |-> v, tenant_id |-> req[p].tenant_id,
                            user_id |-> loc[p].user.id, token_hash |-> v,
                            token_type |-> "reset", is_revoked |-> FALSE,
                            expires_at |-> now + ResetTicks]) @@ tokens
        /\ completions' = (v :> 0) @@ completions
  /\ \E email_sent \in EmailOutcomes :
       IF email_sent = "email_failed"
       THEN Respond(p, req[p], 500, "Failed to send reset email", NoUser,
                    email_sent)
       ELSE Respond(p, req[p], 200, ForgotMessage, NoUser, email_sent)
  /\ UNCHANGED <<now, users, held, failures, side_vars>>

\* token.insert(), then the e-mail, whose outcome changes nothing but a
\* printed warning
ForgotInsert(p) ==
  /\ pc[p] = "forgot_insert"
  /\ LET v == FreshTokenValue
     IN /\ tokens' = (v :> [id |-> v, tenant_id |-> req[p].tenant_id,
                            user_id |-> loc[p].user.id, token_hash |-> v,
                            token_type |-> "reset", is_revoked |-> FALSE,
                            expires_at |-> now + ResetTicks]) @@ tokens
        /\ completions' = (v :> 0) @@ completions
  /\ \E email_sent \in EmailOutcomes :
       Respond(p, req[p], 200, ForgotMessage, NoUser, email_sent)
  /\ UNCHANGED <<now, users, held, failures, side_vars>>

(***************************************************************************)
(* POST /reset-password (src/app/api/auth.py)                              *)
(***************************************************************************)
\* mutant: the lookup does not filter on is_revoked
find_reset_token_revoked_too(tenant_id, token, t) ==
  LET m == {i \in DOMAIN tokens :
              /\ tokens[i].tenant_id = tenant_id
              /\ tokens[i].token_hash = token
              /\ tokens[i].token_type = "reset"
              /\ tokens[i].expires_at > t}
  IN IF m = {} THEN NoToken ELSE tokens[CHOOSE i \in m : \A j \in m : i <= j]

\* mutant: the lookup does not filter on token_type
find_reset_token_any_type(tenant_id, token, t) ==
  LET m == {i \in DOMAIN tokens :
              /\ tokens[i].tenant_id = tenant_id
              /\ tokens[i].token_hash = token
              /\ tokens[i].is_revoked = FALSE
              /\ tokens[i].expires_at > t}
  IN IF m = {} THEN NoToken ELSE tokens[CHOOSE i \in m : \A j \in m : i <= j]

\* Token.find_one(tenant_id, token_hash, token_type == RESET,
\*                is_revoked == False, expires_at > utcnow())
find_reset_token(tenant_id, token, t) ==
  LET m == {i \in DOMAIN tokens :
              /\ tokens[i].tenant_id = tenant_id
              /\ tokens[i].token_hash = token
              /\ tokens[i].token_type = "reset"
              /\ tokens[i].is_revoked = FALSE
              /\ tokens[i].expires_at > t}
  IN IF m = {} THEN NoToken ELSE tokens[CHOOSE i \in m : \A j \in m : i <= j]

\* Document.save() of a Token
save_token(token) == tokens' = [tokens EXCEPT ![token.id] = token]

\* the case a reset-password request meets when it arrives
ResetCase(tenant_id, token, t) ==
  IF \E i \in DOMAIN tokens :
       /\ tokens[i].token_hash = token
       /\ tokens[i].tenant_id = tenant_id
       /\ tokens[i].is_revoked
       /\ tokens[i].expires_at > t
  THEN "revoked"
  ELSE ""

ResetStart(p, tenant_id, token, new_password) ==
  /\ pc[p] = "idle"
  /\ LET r == [op |-> "reset", tenant_id |-> tenant_id, token |-> token,
               new_password |-> new_password]
         found == find_reset_token(tenant_id, token, now)
     IN IF found = NoToken
        THEN Respond(p, r, 400, "Invalid or expired reset token", NoUser,
                     ResetCase(tenant_id, token, now))
        ELSE Suspend(p, r, "reset_user", [NoLoc EXCEPT !.token = found])
  /\ UNCHANGED <<now, users, tokens, held, failures, completions, side_vars>>

\* get_user_by_id(token.user_id) and the policy check of the new password
ResetUser(p) ==
  /\ pc[p] = "reset_user"
  /\ LET user == get_user_by_id(req[p].tenant_id, loc[p].token.user_id)
         verdict == validate_password_policy(req[p].tenant_id, req[p].new_password)
     IN IF user = NoUser
        THEN Respond(p, req[p], 400, "User not found", NoUser, "")
        ELSE IF ~verdict.ok
        THEN Respond(p, req[p], 400, verdict.message, NoUser, "")
        ELSE Suspend(p, req[p], "reset_save_user", [loc[p] EXCEPT !.user = user])
  /\ UNCHANGED <<now, users, tokens, held, failures, completions, side_vars>>

\* user.password_hash = hash_password(new_password); user.save()
ResetSaveUser(p) ==
  /\ pc[p] = "reset_save_user"
  /\ \E salt \in Salts :
       save_user([loc[p].user EXCEPT
                    !.password_hash = hash_password(req[p].new_password, salt)])
  /\ pc' = [pc EXCEPT ![p] = "reset_save_token"]
  /\ last' = NoLast
  /\ UNCHANGED <<now, tokens, req, loc, held, failures, completions, side_vars>>

\* token.is_revoked = True; token.save(); the success response
ResetSaveToken(p) ==
  /\ pc[p] = "reset_save_token"
  /\ save_token([loc[p].token EXCEPT !.is_revoked = TRUE])
  /\ completions' = [completions EXCEPT ![loc[p].token.id] = @ + 1]
  /\ Respond(p, req[p], 200, "Password reset successfully", loc[p].user, "")
  /\ UNCHANGED <<now, users, held, failures, side_vars>>

(***************************************************************************)
(* Token blacklist and API keys of AuthService (src/app/core/auth.py)      *)
(***************************************************************************)
\* mutant: an unreachable store counts every token as revoked
is_token_blacklisted_fail_closed(tenant_id, token, t) ==
  IF ~redis_client
  THEN TRUE
  ELSE IF redis_down
  THEN TRUE
  ELSE \E e \in blacklist :
         e.tenant_id = tenant_id /\ e.token = token /\ t < e.expires_at

\* redis_client.exists("blacklist:<tenant>:<token>"): a key set with SETEX
\* exists until its time to live has run out; an exception of the call
\* counts as not blacklisted
is_token_blacklisted(tenant_id, token, t) ==
  IF ~redis_client
  THEN FALSE
  ELSE IF redis_down
  THEN FALSE
  ELSE \E e \in blacklist :
         e.tenant_id = tenant_id /\ e.token = token /\ t < e.expires_at

\* redis_client.setex("blacklist:<tenant>:<token>", expires_in, "true"); an
\* exception of the call is passed over
blacklist_token(tenant_id, token, expires_in, t) ==
  IF redis_client /\ ~redis_down
  THEN blacklist' =
         {e \in blacklist : ~(e.tenant_id = tenant_id /\ e.token = token)}
           \cup {[tenant_id |-> tenant_id, token |-> token,
                  expires_at |-> t + expires_in]}
  ELSE blacklist' = blacklist

\* APIKey.find_one(tenant_id, key_hash, is_active == True)
find_api_key(tenant_id, key_hash) ==
  LET m == {i \in DOMAIN api_keys :
              /\ api_keys[i].tenant_id = tenant_id
              /\ api_keys[i].key_hash = key_hash
              /\ api_keys[i].is_active = TRUE}
  IN IF m = {} THEN NoKey ELSE api_keys[CHOOSE i \in m : \A j \in m : i <= j]

\* Document.save() of an APIKey
save_api_key(key) == api_keys' = [api_keys EXCEPT ![key.id] = key]

(***************************************************************************)
(* get_current_user (src/app/core/auth.py) and the endpoints behind it:    *)
(* GET /me, DELETE /me (src/app/api/users.py), POST /logout                *)
(* (src/app/api/auth.py), POST /api-keys (src/app/api/tokens.py)           *)
(***************************************************************************)
Endpoints ==
  {"me", "update", "change_password", "delete", "logout", "create_api_key",
   "revoke_api_key"}

\* a request without a body; UserUpdate.email: Optional[EmailStr] = None
NoBody == [email |-> ""]

\* token.startswith("ak_")
is_api_key(token) == token.prefix = "ak_"

\* mutant: get_current_user does not compare the tenants
token_tenant_ignored(payload, tenant_id) == FALSE

\* payload.get("tenant_id") != tenant_id, in get_current_user
token_tenant_mismatch(payload, tenant_id) == payload.tenant_id # tenant_id

\* payload.get("tenant_id") != tenant_id, in validate_token_endpoint
validate_tenant_mismatch(payload, tenant_id) == payload.tenant_id # tenant_id

\* int(datetime.utcnow().timestamp()): utcnow() is a naive datetime and
\* timestamp() reads a naive datetime as local time, so the result is the
\* epoch time minus the server's offset from UTC
utcnow_timestamp(t) == t - utc_offset

\* the body of POST /logout: blacklist the token for its remaining lifetime
logout_body(tenant_id, token, t) ==
  LET payload == verify_token(token, t)
  IN IF payload # NoPayload /\ payload.exp - utcnow_timestamp(t) > 0
     THEN blacklist_token(tenant_id, token, payload.exp - utcnow_timestamp(t), t)
     ELSE blacklist' = blacklist

\* mutant: every tenant can use every feature
can_use_every_feature(tenant_id, feature) == TRUE

\* AuthService.can_use_feature
can_use_feature(tenant_id, feature) == is_feature_enabled(tenant_id, feature)

\* the 403 detail of the routes of src/app/api/tokens.py
KeysDisabled(tenant_id) ==
  "API keys are not enabled for tenant '" \o tenant_id \o "'"

\* f"Password must be at least {settings.PASSWORD_MIN_LENGTH} characters"
PasswordTooShort == "Password must be at least 8 characters"

\* PasswordUpdate: current_password, new_password
PasswordUpdate(current_password, new_password) ==
  [current_password |-> current_password, new_password |-> new_password]

\* get_current_user has returned `user`: the endpoint runs to its next await
Endpoint(p, user) ==
  CASE req[p].endpoint = "me" ->
         /\ Respond(p, req[p], 200, "UserResponse", user, "")
         /\ UNCHANGED blacklist
    [] req[p].endpoint = "logout" ->
         /\ logout_body(req[p].tenant_id, req[p].credential, now)
         /\ Respond(p, req[p], 200, "Successfully logged out", user, "")
    [] req[p].endpoint = "update" ->
         /\ Suspend(p, req[p], "update_save",
                    [NoLoc EXCEPT !.user =
                       IF req[p].body.email # "" /\ req[p].body.email # user.email
                       THEN [user EXCEPT !.email = req[p].body.email,
                                         !.is_verified = FALSE]
                       ELSE user])
         /\ UNCHANGED blacklist
    [] req[p].endpoint = "change_password" ->
         /\ IF ~verify_password(req[p].body.current_password, user.password_hash)
            THEN Respond(p, req[p], 400, "Current password is incorrect", user, "")
            ELSE IF Len(req[p].body.new_password) < PASSWORD_MIN_LENGTH
            THEN Respond(p, req[p], 400, PasswordTooShort, user, "")
            ELSE Suspend(p, req[p], "password_save", [NoLoc EXCEPT !.user = user])
         /\ UNCHANGED blacklist
    [] req[p].endpoint = "delete" ->
         /\ Suspend(p, req[p], "delete_save", [NoLoc EXCEPT !.user = user])
         /\ UNCHANGED blacklist
    [] req[p].endpoint = "create_api_key" ->
         /\ IF ~can_use_feature(req[p].tenant_id, "api_keys")
            THEN Respond(p, req[p], 403, KeysDisabled(req[p].tenant_id), user, "")
            ELSE Suspend(p, req[p], "key_insert", [NoLoc EXCEPT !.user = user])
         /\ UNCHANGED blacklist
    [] req[p].endpoint = "revoke_api_key" ->
         /\ IF ~can_use_feature(req[p].tenant_id, "api_keys")
            THEN Respond(p, req[p], 403, KeysDisabled(req[p].tenant_id), user, "")
            ELSE Suspend(p, req[p], "revoke_find", [NoLoc EXCEPT !.user = user])
         /\ UNCHANGED blacklist

\* get_current_user up to its first await, for a request with a body
BearerRequest(p, tenant_id, credential, endpoint, body) ==
  /\ pc[p] = "idle"
  /\ endpoint = "create_api_key" =>
       Cardinality(DOMAIN api_keys) + Cardinality({q \in Procs : pc[q] = "key_insert"})
         < MaxApiKeys
  /\ LET r == [op |-> "bearer", tenant_id |-> tenant_id,
               credential |-> credential, endpoint |-> endpoint,
               body |-> body]
     IN IF is_api_key(credential)
        THEN IF ~is_feature_enabled(tenant_id, "api_keys")
             THEN IF ~can_use_feature(tenant_id, "api_keys")
                  THEN Respond(p, r, 403,
                               "API keys are not enabled for this tenant",
                               NoUser, "")
                  ELSE Respond(p, r, 401, "Invalid API key", NoUser, "")
             ELSE LET key == find_api_key(tenant_id, hash_api_key(credential))
                  IN IF key = NoKey
                     THEN Respond(p, r, 401, "Invalid API key", NoUser, "")
                     ELSE IF key.expires_at # NoTime /\ key.expires_at < now
                     THEN Respond(p, r, 401, "Invalid API key", NoUser, "")
                     ELSE Suspend(p, r, "key_touch", [NoLoc EXCEPT !.key = key])
        ELSE IF is_token_blacklisted(tenant_id, credential, now)
        THEN Respond(p, r, 401, "Token has been revoked", NoUser, "")
        ELSE LET payload == verify_token(credential, now)
             IN IF payload = NoPayload
                THEN Respond(p, r, 401, "Invalid token", NoUser, "")
                ELSE IF token_tenant_mismatch(payload, tenant_id)
                THEN Respond(p, r, 401, "Token tenant mismatch", NoUser, "")
                ELSE Suspend(p, r, "bearer_user", NoLoc)
  /\ UNCHANGED <<now, users, tokens, held, failures, completions, side_vars>>

\* get_current_user up to its first await, for a request without a body
BearerStart(p, tenant_id, credential, endpoint) ==
  BearerRequest(p, tenant_id, credential, endpoint, NoBody)

\* get_user_by_id(sub) and the active check, then the endpoint
BearerUser(p) ==
  /\ pc[p] = "bearer_user"
  /\ LET payload == req[p].credential.payload
         user == get_user_by_id(req[p].tenant_id, payload.sub)
     IN IF user = NoUser
        THEN Respond(p, req[p], 401, "User not found", NoUser, "")
             /\ UNCHANGED blacklist
        ELSE IF ~user.is_active
        THEN Respond(p, req[p], 401, "User account is inactive", NoUser, "")
             /\ UNCHANGED blacklist
        ELSE Endpoint(p, user)
  /\ UNCHANGED <<now, users, tokens, api_keys, tenants, redis_client, redis_down,
                 utc_offset, settings, held, failures,
                 completions>>

\* validate_api_key: api_key_obj.last_used_at = utcnow(); save()
ApiKeyTouch(p) ==
  /\ pc[p] = "key_touch"
  /\ save_api_key([loc[p].key EXCEPT !.last_used_at = now])
  /\ pc' = [pc EXCEPT ![p] = "key_user"]
  /\ last' = NoLast
  /\ UNCHANGED <<now, users, tokens, tenants, redis_client, redis_down,
                 utc_offset, settings, blacklist, req, loc, held,
                 failures, completions>>

\* validate_api_key: get_user_by_id(api_key_obj.user_id), then the endpoint
ApiKeyUser(p) ==
  /\ pc[p] = "key_user"
  /\ LET user == get_user_by_id(req[p].tenant_id, loc[p].key.user_id)
     IN IF user = NoUser
        THEN Respond(p, req[p], 401, "Invalid API key", NoUser, "")
             /\ UNCHANGED blacklist
        ELSE Endpoint(p, user)
  /\ UNCHANGED <<now, users, tokens, api_keys, tenants, redis_client, redis_down,
                 utc_offset, settings, held, failures,
                 completions>>

\* DELETE /me: current_user.is_active = False; save()
DeleteSave(p) ==
  /\ pc[p] = "delete_save"
  /\ save_user([loc[p].user EXCEPT !.is_active = FALSE])
  /\ Respond(p, req[p], 200, "Account deactivated successfully", loc[p].user, "")
  /\ UNCHANGED <<now, tokens, held, failures, completions, side_vars>>

\* POST /change-password: current_user.save() of the copy with the new hash
PasswordSave(p) ==
  /\ pc[p] = "password_save"
  /\ \E salt \in Salts :
       save_user([loc[p].user EXCEPT
                    !.password_hash = hash_password(req[p].body.new_password, salt)])
  /\ Respond(p, req[p], 200, "Password updated successfully", loc[p].user, "")
  /\ UNCHANGED <<now, tokens, held, failures, completions, side_vars>>

\* PUT /me: current_user.save() of the copy with the new email
UpdateSave(p) ==
  /\ pc[p] = "update_save"
  /\ save_user(loc[p].user)
  /\ Respond(p, req[p], 200, "UserResponse", loc[p].user, "")
  /\ UNCHANGED <<now, tokens, held, failures, completions, side_vars>>

\* secrets.token_urlsafe(32): material no stored key was made of
FreshKeyValue ==
  CHOOSE v \in 1..(Cardinality(DOMAIN api_keys) + 1) : v \notin DOMAIN api_keys

\* POST /api-keys: api_key_obj.insert(); the key is returned once
KeyInsert(p) ==
  /\ pc[p] = "key_insert"
  /\ LET v == FreshKeyValue
     IN api_keys' =
          (v :> [id |-> v, tenant_id |-> req[p].tenant_id,
                 user_id |-> loc[p].user.id,
                 key_hash |-> hash_api_key(generate_api_key(v)),
                 is_active |-> TRUE, last_used_at |-> NoTime,
                 expires_at |-> NoTime]) @@ api_keys
  /\ Respond(p, req[p], 200, "APIKeyResponse", loc[p].user, "")
  /\ UNCHANGED <<now, users, tokens, tenants, redis_client, redis_down,
                 utc_offset, settings, blacklist, held, failures,
                 completions>>

\* the path parameter of DELETE /api-keys/{key_id}
KeyPath(key_id) == [key_id |-> key_id]

\* APIKey.find_one(tenant_id, id == key_id, user_id == current_user.id)
find_own_api_key(tenant_id, key_id, user_id) ==
  IF /\ key_id \in DOMAIN api_keys
     /\ api_keys[key_id].tenant_id = tenant_id
     /\ api_keys[key_id].user_id = user_id
  THEN api_keys[key_id]
  ELSE NoKey

\* DELETE /api-keys/{key_id}: the lookup of the caller's key
RevokeFind(p) ==
  /\ pc[p] = "revoke_find"
  /\ LET api_key == find_own_api_key(req[p].tenant_id, req[p].body.key_id,
                                     loc[p].user.id)
     IN IF api_key = NoKey
        THEN Respond(p, req[p], 404, "API key not found", loc[p].user, "")
        ELSE Suspend(p, req[p], "revoke_save", [loc[p] EXCEPT !.key = api_key])
  /\ UNCHANGED <<now, users, tokens, held, failures, completions, side_vars>>

\* DELETE /api-keys/{key_id}: api_key.is_active = False; save()
RevokeSave(p) ==
  /\ pc[p] = "revoke_save"
  /\ save_api_key([loc[p].key EXCEPT !.is_active = FALSE])
  /\ Respond(p, req[p], 200, "API key revoked successfully", loc[p].user, "")
  /\ UNCHANGED <<now, users, tokens, tenants, redis_client, redis_down,
                 utc_offset, settings, blacklist, held, failures,
                 completions>>

(***************************************************************************)
(* POST /validate (src/app/api/auth.py)                                    *)
(***************************************************************************)
ValidateStart(p, tenant_id, token) ==
  /\ pc[p] = "idle"
  /\ LET r == [op |-> "validate", tenant_id |-> tenant_id, credential |-> token]
         payload == verify_token(token, now)
     IN IF payload = NoPayload
        THEN Respond(p, r, 200, "is_valid=False", NoUser, "")
        ELSE IF validate_tenant_mismatch(payload, tenant_id)
        THEN Respond(p, r, 200, "is_valid=False", NoUser, "")
        ELSE Respond(p, r, 200, "is_valid=True", NoUser, "")
  /\ UNCHANGED <<now, users, tokens, held, failures, completions, side_vars>>

(***************************************************************************)
(* Tenant resolution: TenantManager.is_valid_tenant                        *)
(* (src/app/core/tenant_manager.py) and get_tenant_id                      *)
(* (src/app/core/auth.py), the dependency every tenant-scoped route runs   *)
(* first.  The identifier is the X-Tenant-ID header; "" is an absent one.  *)
(***************************************************************************)
NoTenant == [tenant_id |-> ""]

\* the identifiers a client can send: the configured ones and one that is
\* not configured
TenantIds == Tenants \cup {"ghost"}

\* Tenant.find_one(Tenant.tenant_id == tenant_id)
find_tenant(tenant_id) ==
  IF tenant_id \in DOMAIN tenants THEN tenants[tenant_id] ELSE NoTenant

\* mutant: only the configuration is consulted
is_valid_tenant_by_config(tenant_id) == tenant_id \in DOMAIN TENANTS

is_valid_tenant(tenant_id) ==
  IF tenant_id \notin DOMAIN TENANTS
  THEN FALSE
  ELSE LET tenant == find_tenant(tenant_id)
       IN tenant # NoTenant /\ tenant.is_active

TenantRequired ==
  "Tenant ID is required. Provide via X-Tenant-ID header or query parameter."

TenantNotFound(tenant) == "Tenant '" \o tenant \o "' not found or inactive"

\* the outcome of the dependency: the tenant, or the HTTPException
get_tenant_id(x_tenant_id) ==
  IF x_tenant_id = ""
  THEN [ok |-> FALSE, status |-> 400, detail |-> TenantRequired]
  ELSE IF ~is_valid_tenant(x_tenant_id)
  THEN [ok |-> FALSE, status |-> 404, detail |-> TenantNotFound(x_tenant_id)]
  ELSE [ok |-> TRUE, status |-> 0, detail |-> ""]

\* the dependency has raised: the route's handler does not run
TenantRejected(p, r, outcome) ==
  /\ pc[p] = "idle"
  /\ Respond(p, r, outcome.status, outcome.detail, NoUser, "")
  /\ UNCHANGED <<now, users, tokens, held, failures, completions, side_vars>>

\* POST /login behind get_tenant_id
TenantLogin(p, x_tenant_id, email, password) ==
  LET outcome == get_tenant_id(x_tenant_id)
  IN IF outcome.ok
     THEN LoginStart(p, x_tenant_id, email, password)
     ELSE TenantRejected(p, [op |-> "login", tenant_id |-> x_tenant_id,
                             email |-> email, password |-> password], outcome)

\* POST /register behind get_auth_service, which depends on get_tenant_id
TenantRegister(p, x_tenant_id, email, password) ==
  LET outcome == get_tenant_id(x_tenant_id)
  IN IF outcome.ok
     THEN RegisterStart(p, x_tenant_id, email, password)
     ELSE TenantRejected(p, [op |-> "register", tenant_id |-> x_tenant_id,
                             email |-> email, password |-> password], outcome)

(***************************************************************************)
(* Start-up reconciliation: create_default_tenants (src/app/database.py),  *)
(* run by connect_to_mongo before the application serves requests.  The    *)
(* start-up task uses the slot StartupSlot; what it prints is its output.  *)
(***************************************************************************)
StartupSlot == "p1"

\* settings.TENANTS.items(): the configured tenants in the dict's order
TenantOrder == <<"kb", "t2">>

\* tenant_config.get(key, default)
config_get(tenant_config, key, default) ==
  IF key \in DOMAIN tenant_config THEN tenant_config[key] ELSE default

\* Tenant(tenant_id=..., name=..., description=..., is_active=True, settings=...)
NewTenant(tenant_id, tenant_config) ==
  [tenant_id |-> tenant_id, name |-> tenant_config.name,
   description |-> config_get(tenant_config, "description", ""),
   is_active |-> TRUE, settings |-> config_get(tenant_config, "settings", <<>>)]

\* mutant: an existing record keeps its active flag
UpdatedTenantKeepsFlag(existing, tenant_config) ==
  [existing EXCEPT !.name = tenant_config.name,
                   !.description = config_get(tenant_config, "description", ""),
                   !.settings = config_get(tenant_config, "settings", <<>>)]

\* the existing document as the else branch leaves it before save()
UpdatedTenant(existing, tenant_config) ==
  [existing EXCEPT !.name = tenant_config.name,
                   !.description = config_get(tenant_config, "description", ""),
                   !.settings = config_get(tenant_config, "settings", <<>>),
                   !.is_active = TRUE]

\* the process starts: connect_to_mongo calls create_default_tenants
ReconcileStart ==
  /\ pc[StartupSlot] = "idle"
  /\ Suspend(StartupSlot,
             [op |-> "startup", todo |-> TenantOrder, existing |-> NoTenant],
             "reconcile_find", NoLoc)
  /\ UNCHANGED <<now, users, tokens, held, failures, completions, side_vars>>

\* existing = await Tenant.find_one(Tenant.tenant_id == tenant_id)
ReconcileFind ==
  /\ pc[StartupSlot] = "reconcile_find"
  /\ Suspend(StartupSlot,
             [req[StartupSlot] EXCEPT
                !.existing = find_tenant(Head(req[StartupSlot].todo))],
             "reconcile_write", NoLoc)
  /\ UNCHANGED <<now, users, tokens, held, failures, completions, side_vars>>

\* tenant.insert() or existing.save(), the printed line, the next tenant
ReconcileWrite ==
  /\ pc[StartupSlot] = "reconcile_write"
  /\ LET r == req[StartupSlot]
         tenant_id == Head(r.todo)
         tenant_config == TENANTS[tenant_id]
     IN /\ IF r.existing = NoTenant
           THEN tenants' = (tenant_id :> NewTenant(tenant_id, tenant_config)) @@ tenants
           ELSE tenants' = [tenants EXCEPT
                              ![tenant_id] = UpdatedTenant(r.existing, tenant_config)]
        /\ last' = [req |-> r, status |-> 0,
                    detail |-> IF r.existing = NoTenant
                               THEN "Created tenant" ELSE "Updated tenant",
                    principal |-> NoUser, note |-> tenant_id]
        /\ IF Tail(r.todo) = <<>>
           THEN /\ pc' = [pc EXCEPT ![StartupSlot] = "idle"]
                /\ req' = [req EXCEPT ![StartupSlot] = NoReq]
           ELSE /\ pc' = [pc EXCEPT ![StartupSlot] = "reconcile_find"]
                /\ req' = [req EXCEPT ![StartupSlot] =
                             [r EXCEPT !.todo = Tail(r.todo), !.existing = NoTenant]]
  /\ UNCHANGED <<now, users, tokens, api_keys, redis_client, redis_down, utc_offset, settings,
                 blacklist, loc, held, failures, completions>>

(***************************************************************************)
(* Login specification: one registered user of tenant kb, two request      *)
(* slots issuing password logins.                                          *)
(***************************************************************************)
\* no request in flight, no response sent, no session, the clock at 0
InitSlots ==
  /\ now = 0
  /\ pc = [p \in Procs |-> "idle"]
  /\ req = [p \in Procs |-> NoReq]
  /\ loc = [p \in Procs |-> NoLoc]
  /\ last = NoLast
  /\ held = NoTokens
  /\ blacklist = {}
  /\ redis_down = FALSE

InitIdle ==
  /\ InitSlots
  /\ utc_offset = 0
  /\ settings = DefaultSettings
  /\ users = (1 :> User(1, "kb", "a@x.com", hash_password(PwdGood, "s1")))
  /\ failures = (1 :> 0)
  /\ tokens = <<>>
  /\ completions = <<>>
  /\ api_keys = <<>>

\* create_default_tenants(): at start-up every configured tenant gets an
\* active Tenant record
DefaultTenants == [t \in Tenants |-> [tenant_id |-> t, is_active |-> TRUE]]

InitLogin == InitIdle /\ redis_client = FALSE /\ tenants = DefaultTenants

NextLogin ==
  \/ \E p \in Procs, w \in {PwdGood, PwdWrong} :
       LoginStart(p, "kb", "a@x.com", w)
  \/ \E p \in Procs : LoginIncrement(p)
  \/ \E p \in Procs : LoginReset(p)
  \/ Tick(MaxTimeLogin)

SpecLogin == InitLogin /\ [][NextLogin]_vars

(***************************************************************************)
(* Reset specification: one registered user of tenant kb, two request      *)
(* slots issuing forgot-password and reset-password requests.              *)
(***************************************************************************)
InitReset == InitIdle /\ redis_client = FALSE /\ tenants = DefaultTenants

NextReset ==
  \/ \E p \in Procs, e \in Emails : ForgotStart(p, "kb", e)
  \/ \E p \in Procs : ForgotInsert(p)
  \/ \E p \in Procs, t \in Tenants, k \in 1..MaxResetTokens,
        w \in {PwdNew, PwdShort} :
       ResetStart(p, t, k, w)
  \/ \E p \in Procs : ResetUser(p)
  \/ \E p \in Procs : ResetSaveUser(p)
  \/ \E p \in Procs : ResetSaveToken(p)
  \/ Tick(MaxTimeReset)

SpecReset == InitReset /\ [][NextReset]_vars

(***************************************************************************)
(* Session specification: one registered user of tenant kb; clients that   *)
(* log in with the right password and present, under either tenant, the    *)
(* tokens of the last login or a token signed with another key, to GET /me,*)
(* POST /logout and POST /validate.  The Redis client is connected or not. *)
(***************************************************************************)
ForgedToken ==
  jwt_encode([sub |-> 1, tenant_id |-> "kb", exp |-> MaxTimeBearer + AccessTicks,
              type |-> "access"], "not the secret")

\* the session tokens a client can present
SessionCredentials ==
  (IF held.issued THEN {held.access_token, held.refresh_token} ELSE {})
    \cup {ForgedToken}

SessionEndpoints == {"me", "logout"}

InitBearer == InitIdle /\ redis_client \in BOOLEAN /\ tenants = DefaultTenants

NextBearer ==
  \/ \E p \in Procs : LoginStart(p, "kb", "a@x.com", PwdGood)
  \/ \E p \in Procs : LoginReset(p)
  \/ \E p \in Procs, t \in Tenants, c \in SessionCredentials,
        e \in SessionEndpoints :
       BearerStart(p, t, c, e)
  \/ \E p \in Procs : BearerUser(p)
  \/ \E p \in Procs, t \in Tenants, c \in SessionCredentials :
       ValidateStart(p, t, c)
  \/ Tick(MaxTimeBearer)

SpecBearer == InitBearer /\ [][NextBearer]_vars

(***************************************************************************)
(* Account specification: one registered user of tenant kb; clients that   *)
(* log in with the right password and present the access token of the last *)
(* login or an API key, under either tenant, to GET /me, DELETE /me and    *)
(* POST /api-keys.                                                         *)
(***************************************************************************)
\* the bearer strings a client can present
AccountCredentials ==
  (IF held.issued THEN {held.access_token} ELSE {})
    \cup {generate_api_key(v) : v \in 1..MaxApiKeys}

AccountEndpoints == {"me", "delete", "create_api_key"}

InitAccount == InitIdle /\ redis_client = FALSE /\ tenants = DefaultTenants

NextAccount ==
  \/ \E p \in Procs : LoginStart(p, "kb", "a@x.com", PwdGood)
  \/ \E p \in Procs : LoginReset(p)
  \/ \E p \in Procs, t \in Tenants, c \in AccountCredentials,
        e \in AccountEndpoints :
       BearerStart(p, t, c, e)
  \/ \E p \in Procs : BearerUser(p)
  \/ \E p \in Procs : ApiKeyTouch(p)
  \/ \E p \in Procs : ApiKeyUser(p)
  \/ \E p \in Procs : DeleteSave(p)
  \/ \E p \in Procs : KeyInsert(p)
  \/ Tick(MaxTimeAccount)

SpecAccount == InitAccount /\ [][NextAccount]_vars

(***************************************************************************)
(* Register specification: one registered user of tenant kb; clients that  *)
(* register under either tenant, log in as the first user and change its   *)
(* email with PUT /me.                                                     *)
(***************************************************************************)
InitRegister == InitIdle /\ redis_client = FALSE /\ tenants = DefaultTenants

NextRegister ==
  \/ \E p \in Procs, t \in Tenants, e \in Emails, w \in {PwdGood, PwdNoSpecial} :
       RegisterStart(p, t, e, w)
  \/ \E p \in Procs : RegisterInsert(p)
  \/ \E p \in Procs : LoginStart(p, "kb", "a@x.com", PwdGood)
  \/ \E p \in Procs : LoginReset(p)
  \/ \E p \in Procs, e \in Emails :
       /\ held.issued
       /\ BearerRequest(p, "kb", held.access_token, "update", [email |-> e])
  \/ \E p \in Procs : BearerUser(p)
  \/ \E p \in Procs : UpdateSave(p)

SpecRegister == InitRegister /\ [][NextRegister]_vars

(***************************************************************************)
(* Tenant specification: the tenants collection is in any state an         *)
(* administrator can leave it in (a record absent, inactive or active, for *)
(* configured and unconfigured identifiers); clients log in and register   *)
(* under any identifier, or none.                                          *)
(***************************************************************************)
TenantStores ==
  UNION {[S -> BOOLEAN] : S \in SUBSET TenantIds}

InitTenant ==
  /\ InitIdle
  /\ redis_client = FALSE
  /\ \E active \in TenantStores :
       tenants = [t \in DOMAIN active |->
                    [tenant_id |-> t, is_active |-> active[t]]]

NextTenant ==
  \/ \E p \in Procs, x \in TenantIds \cup {""} :
       TenantLogin(p, x, "a@x.com", PwdGood)
  \/ \E p \in Procs : LoginReset(p)
  \/ \E p \in Procs, x \in TenantIds \cup {""} :
       TenantRegister(p, x, "nobody@x.com", PwdGood)
  \/ \E p \in Procs : RegisterInsert(p)

SpecTenant == InitTenant /\ [][NextTenant]_vars

(***************************************************************************)
(* Feature specification: one registered user of tenant kb; clients that   *)
(* register a user of tenant t2, which has not enabled api_keys, log in    *)
(* under either tenant and call POST /api-keys and GET /me with the access *)
(* token of the last login.                                                *)
(***************************************************************************)
InitFeature == InitIdle /\ redis_client = FALSE /\ tenants = DefaultTenants

NextFeature ==
  \/ \E p \in Procs : RegisterStart(p, "t2", "a@x.com", PwdGood)
  \/ \E p \in Procs : RegisterInsert(p)
  \/ \E p \in Procs, t \in Tenants : LoginStart(p, t, "a@x.com", PwdGood)
  \/ \E p \in Procs : LoginReset(p)
  \/ \E p \in Procs, t \in Tenants, e \in {"me", "create_api_key"} :
       /\ held.issued
       /\ BearerStart(p, t, held.access_token, e)
  \/ \E p \in Procs : BearerUser(p)
  \/ \E p \in Procs : KeyInsert(p)

SpecFeature == InitFeature /\ [][NextFeature]_vars

(***************************************************************************)
(* Key-gate specification: a user in each tenant and stored API keys from  *)
(* a time when both tenants had the feature: an active key of t2, an       *)
(* active key of kb that expires, a revoked key of kb.  Clients present    *)
(* these keys and an unknown one to GET /me under either tenant.           *)
(***************************************************************************)
APIKey(id, tenant_id, user_id, is_active, expires_at) ==
  [id |-> id, tenant_id |-> tenant_id, user_id |-> user_id,
   key_hash |-> hash_api_key(generate_api_key(id)), is_active |-> is_active,
   last_used_at |-> NoTime, expires_at |-> expires_at]

StoredKeys ==
  <<APIKey(1, "t2", 2, TRUE, NoTime),
    APIKey(2, "kb", 1, TRUE, 1),
    APIKey(3, "kb", 1, FALSE, NoTime)>>

\* the stored keys and one that was never issued
KeyGateCredentials == {generate_api_key(v) : v \in 1..(Len(StoredKeys) + 1)}

InitKeyGate ==
  /\ InitSlots
  /\ utc_offset = 0
  /\ settings = DefaultSettings
  /\ redis_client = FALSE
  /\ tenants = DefaultTenants
  /\ users = <<User(1, "kb", "a@x.com", hash_password(PwdGood, "s1")),
               User(2, "t2", "a@x.com", hash_password(PwdGood, "s2"))>>
  /\ failures = <<0, 0>>
  /\ tokens = <<>>
  /\ completions = <<>>
  /\ api_keys = StoredKeys

NextKeyGate ==
  \/ \E p \in Procs, t \in Tenants, c \in KeyGateCredentials :
       BearerStart(p, t, c, "me")
  \/ \E p \in Procs : ApiKeyTouch(p)
  \/ \E p \in Procs : ApiKeyUser(p)
  \/ Tick(MaxTimeKeyGate)

SpecKeyGate == InitKeyGate /\ [][NextKeyGate]_vars

(***************************************************************************)
(* Policy specification: validate_password_policy as a function.  A call   *)
(* is in flight with a policy and a password; the step answers it the way  *)
(* register and reset_password answer: 400 with the message, or success.   *)
(***************************************************************************)
\* the policies of the configured tenants and the fully written policies
Policies ==
  {get_password_policy(t) : t \in Tenants}
    \cup [min_length : {PASSWORD_MIN_LENGTH},
          require_special_chars : BOOLEAN, require_numbers : BOOLEAN,
          require_uppercase : BOOLEAN]

\* a lowercase stem followed by two characters
EndChars == {"!", "-", "1", "A", "x"}

Stem(n) == [i \in 1..n |-> "a"]

PolicyPasswords ==
  {Stem(n) \o <<c, d>> : n \in (MaxStem - 2)..MaxStem, c \in EndChars,
                         d \in EndChars}

InitPolicy ==
  /\ now = 0
  /\ utc_offset = 0
  /\ settings = DefaultSettings
  /\ redis_down = FALSE
  /\ loc = [p \in Procs |-> NoLoc]
  /\ last = NoLast
  /\ held = NoTokens
  /\ blacklist = {}
  /\ users = <<>>
  /\ failures = <<>>
  /\ tokens = <<>>
  /\ completions = <<>>
  /\ api_keys = <<>>
  /\ redis_client = FALSE
  /\ tenants = DefaultTenants
  /\ \E policy \in Policies, password \in PolicyPasswords :
       /\ pc = [p \in Procs |-> IF p = "p1" THEN "validate" ELSE "idle"]
       /\ req = [p \in Procs |->
                   IF p = "p1"
                   THEN [op |-> "validate", policy |-> policy,
                         password |-> password]
                   ELSE NoReq]

\* is_valid, message = auth_service.validate_password_policy(password)
Validate(p) ==
  /\ pc[p] = "validate"
  /\ LET verdict == validate_against_policy(req[p].policy, req[p].password)
     IN Respond(p, req[p], IF verdict.ok THEN 200 ELSE 400, verdict.message,
                NoUser, "")
  /\ UNCHANGED <<now, users, tokens, held, failures, completions, side_vars>>

NextPolicy == \E p \in Procs : Validate(p)

SpecPolicy == InitPolicy /\ [][NextPolicy]_vars

(***************************************************************************)
(* Credentials specification: password logins for the registered user and  *)
(* for an email nobody registered, right and wrong passwords.              *)
(***************************************************************************)
InitCredentials == InitIdle /\ redis_client = FALSE /\ tenants = DefaultTenants

NextCredentials ==
  \/ \E p \in Procs, e \in Emails, w \in {PwdGood, PwdWrong} :
       LoginStart(p, "kb", e, w)
  \/ \E p \in Procs : LoginIncrement(p)
  \/ \E p \in Procs : LoginReset(p)

SpecCredentials == InitCredentials /\ [][NextCredentials]_vars

(***************************************************************************)
(* Completion specification: the registered user of kb holds a reset token *)
(* and a token of type verify; clients present these values and an unknown *)
(* one to POST /reset-password under either tenant while time passes.      *)
(***************************************************************************)
Token(id, tenant_id, user_id, token_type, expires_at) ==
  [id |-> id, tenant_id |-> tenant_id, user_id |-> user_id, token_hash |-> id,
   token_type |-> token_type, is_revoked |-> FALSE, expires_at |-> expires_at]

StoredTokens ==
  <<Token(1, "kb", 1, "reset", ResetTicks), Token(2, "kb", 1, "verify", ResetTicks)>>

\* the stored values and one that was never issued
CompletionTokens == 1..(Len(StoredTokens) + 1)

InitCompletion ==
  /\ InitSlots
  /\ utc_offset = 0
  /\ settings = DefaultSettings
  /\ redis_client = FALSE
  /\ tenants = DefaultTenants
  /\ users = (1 :> User(1, "kb", "a@x.com", hash_password(PwdGood, "s1")))
  /\ failures = (1 :> 0)
  /\ tokens = StoredTokens
  /\ completions = [k \in DOMAIN StoredTokens |-> 0]
  /\ api_keys = <<>>

NextCompletion ==
  \/ \E p \in Procs, t \in Tenants, k \in CompletionTokens,
        w \in {PwdNew, PwdShort} :
       ResetStart(p, t, k, w)
  \/ \E p \in Procs : ResetUser(p)
  \/ \E p \in Procs : ResetSaveUser(p)
  \/ \E p \in Procs : ResetSaveToken(p)
  \/ Tick(MaxTimeReset)

SpecCompletion == InitCompletion /\ [][NextCompletion]_vars

(***************************************************************************)
(* Side-store specification: one registered user of tenant kb logs in and  *)
(* presents the access token of the last login to GET /me and POST /logout *)
(* while Redis is not connected, or is connected and its calls start and   *)
(* stop raising.                                                           *)
(***************************************************************************)
InitSideStore == InitIdle /\ redis_client \in BOOLEAN /\ tenants = DefaultTenants

\* the connection to Redis breaks or comes back
RedisFlap ==
  /\ redis_client
  /\ redis_down' = ~redis_down
  /\ last' = NoLast
  /\ UNCHANGED <<now, users, tokens, api_keys, tenants, redis_client, utc_offset,
                 settings, blacklist, pc, req, loc, held, failures, completions>>

NextSideStore ==
  \/ \E p \in Procs : LoginStart(p, "kb", "a@x.com", PwdGood)
  \/ \E p \in Procs : LoginReset(p)
  \/ \E p \in Procs, e \in SessionEndpoints :
       held.issued /\ BearerStart(p, "kb", held.access_token, e)
  \/ \E p \in Procs : BearerUser(p)
  \/ RedisFlap
  \/ Tick(MaxTimeBearer)

SpecSideStore == InitSideStore /\ [][NextSideStore]_vars

(***************************************************************************)
(* Logout specification: Redis is connected; the registered user of kb     *)
(* logs in and presents the access token of the last login to POST /logout *)
(* and GET /me.  The server's local time is UTC or an hour off it.         *)
(***************************************************************************)
\* an hour, in ticks
HourTicks == 4

UtcOffsets == {0 - HourTicks, 0, HourTicks}

InitLogout ==
  /\ InitSlots
  /\ utc_offset \in UtcOffsets
  /\ settings = DefaultSettings
  /\ redis_client = TRUE
  /\ tenants = DefaultTenants
  /\ users = (1 :> User(1, "kb", "a@x.com", hash_password(PwdGood, "s1")))
  /\ failures = (1 :> 0)
  /\ tokens = <<>>
  /\ completions = <<>>
  /\ api_keys = <<>>

NextLogout ==
  \/ \E p \in Procs : LoginStart(p, "kb", "a@x.com", PwdGood)
  \/ \E p \in Procs : LoginReset(p)
  \/ \E p \in Procs, e \in SessionEndpoints :
       held.issued /\ BearerStart(p, "kb", held.access_token, e)
  \/ \E p \in Procs : BearerUser(p)
  \/ Tick(MaxTimeBearer)

SpecLogout == InitLogout /\ [][NextLogout]_vars

(***************************************************************************)
(* Reconcile specification: the tenants collection holds any records left  *)
(* by earlier runs or by hand, for configured and unconfigured tenants;    *)
(* the process starts, and starts again.                                   *)
(***************************************************************************)
\* the documents a tenants collection can hold for an identifier
OldTenants(tenant_id) ==
  [tenant_id : {tenant_id},
   name : {"old name"} \cup (IF tenant_id \in Tenants
                             THEN {TENANTS[tenant_id].name} ELSE {}),
   description : {"old description"},
   is_active : BOOLEAN,
   settings : {[features |-> {}]}
                \cup (IF tenant_id \in Tenants
                      THEN {TENANTS[tenant_id].settings} ELSE {})]

InitReconcile ==
  /\ InitIdle
  /\ redis_client = FALSE
  /\ \E S \in SUBSET TenantIds :
       tenants \in [S -> UNION {OldTenants(t) : t \in TenantIds}]
  /\ \A t \in DOMAIN tenants : tenants[t].tenant_id = t

NextReconcile ==
  \/ ReconcileStart
  \/ ReconcileFind
  \/ ReconcileWrite

SpecReconcile == InitReconcile /\ [][NextReconcile]_vars

(***************************************************************************)
(* Tenancy specification: a@x.com is registered in kb and, with another    *)
(* password, in t2; c@x.com is registered in kb only.  Clients log in      *)
(* under either tenant with the credentials of the users of kb.            *)
(***************************************************************************)
TenancyEmails == {"a@x.com", "c@x.com"}

InitTenancy ==
  /\ InitSlots
  /\ utc_offset = 0
  /\ settings = DefaultSettings
  /\ redis_client = FALSE
  /\ tenants = DefaultTenants
  /\ users = <<User(1, "kb", "a@x.com", hash_password(PwdGood, "s1")),
               User(2, "t2", "a@x.com", hash_password(PwdWrong, "s2")),
               User(3, "kb", "c@x.com", hash_password(PwdGood, "s1"))>>
  /\ failures = <<0, 0, 0>>
  /\ tokens = <<>>
  /\ completions = <<>>
  /\ api_keys = <<>>

NextTenancy ==
  \/ \E p \in Procs, t \in Tenants, e \in TenancyEmails :
       LoginStart(p, t, e, PwdGood)
  \/ \E p \in Procs : LoginIncrement(p)
  \/ \E p \in Procs : LoginReset(p)

SpecTenancy == InitTenancy /\ [][NextTenancy]_vars

(***************************************************************************)
(* Order specification: a@x.com of kb is active, c@x.com of kb has been    *)
(* deactivated; clients log in as the first with the right and a wrong     *)
(* password and as the second with the right one.                          *)
(***************************************************************************)
Deactivated(user) == [user EXCEPT !.is_active = FALSE]

InitOrder ==
  /\ InitSlots
  /\ utc_offset = 0
  /\ settings = DefaultSettings
  /\ redis_client = FALSE
  /\ tenants = DefaultTenants
  /\ users = <<User(1, "kb", "a@x.com", hash_password(PwdGood, "s1")),
               Deactivated(User(2, "kb", "c@x.com", hash_password(PwdGood, "s2")))>>
  /\ failures = <<0, 0>>
  /\ tokens = <<>>
  /\ completions = <<>>
  /\ api_keys = <<>>

NextOrder ==
  \/ \E p \in Procs, w \in {PwdGood, PwdWrong} :
       LoginStart(p, "kb", "a@x.com", w)
  \/ \E p \in Procs : LoginStart(p, "kb", "c@x.com", PwdGood)
  \/ \E p \in Procs : LoginIncrement(p)
  \/ \E p \in Procs : LoginReset(p)

SpecOrder == InitOrder /\ [][NextOrder]_vars

(***************************************************************************)
(* Limit specification: the environment sets MAX_LOGIN_ATTEMPTS; a@x.com   *)
(* is registered in kb, whose configuration overrides login_attempts, and  *)
(* in t2, whose configuration does not.  Clients log in with a password    *)
(* that is wrong for both, and the process is started again with another   *)
(* setting.                                                                *)
(***************************************************************************)
\* the values MAX_LOGIN_ATTEMPTS is set to
AttemptSettings == {3, 5}

InitLimit ==
  /\ InitSlots
  /\ utc_offset = 0
  /\ settings \in [MAX_LOGIN_ATTEMPTS : AttemptSettings]
  /\ redis_client = FALSE
  /\ tenants = DefaultTenants
  /\ users = <<User(1, "kb", "a@x.com", hash_password(PwdGood, "s1")),
               User(2, "t2", "a@x.com", hash_password(PwdGood, "s2"))>>
  /\ failures = <<0, 0>>
  /\ tokens = <<>>
  /\ completions = <<>>
  /\ api_keys = <<>>

\* the process is restarted with another MAX_LOGIN_ATTEMPTS
Reconfigure(n) ==
  /\ \A p \in Procs : pc[p] = "idle"
  /\ n # settings.MAX_LOGIN_ATTEMPTS
  /\ settings' = [settings EXCEPT !.MAX_LOGIN_ATTEMPTS = n]
  /\ last' = NoLast
  /\ UNCHANGED <<now, users, tokens, api_keys, tenants, redis_client, redis_down,
                 utc_offset, blacklist, pc, req, loc, held, failures, completions>>

NextLimit ==
  \/ \E p \in Procs, t \in Tenants : LoginStart(p, t, "a@x.com", PwdWrong)
  \/ \E p \in Procs : LoginIncrement(p)
  \/ \E n \in AttemptSettings : Reconfigure(n)

SpecLimit == InitLimit /\ [][NextLimit]_vars


(***************************************************************************)
(* Counter specification: the registered user of kb holds a reset token;   *)
(* clients log in with the right and a wrong password, present the access  *)
(* token of the last login to PUT /me, POST /change-password and           *)
(* DELETE /me, and complete the password reset, all concurrently.          *)
(***************************************************************************)
\* the request bodies of the account endpoints
CounterRequests ==
  {<<"update", [email |-> "b@x.com"]>>,
   <<"change_password", PasswordUpdate(PwdGood, PwdNew)>>,
   <<"delete", NoBody>>}

\* wrong-password logins started so far
FailedLogins ==
  failures[1] + Cardinality({p \in Procs : pc[p] = "login_increment"})

InitCounter ==
  /\ InitSlots
  /\ utc_offset = 0
  /\ settings = DefaultSettings
  /\ redis_client = FALSE
  /\ tenants = DefaultTenants
  /\ users = (1 :> User(1, "kb", "a@x.com", hash_password(PwdGood, "s1")))
  /\ failures = (1 :> 0)
  /\ tokens = <<Token(1, "kb", 1, "reset", ResetTicks)>>
  /\ completions = <<0>>
  /\ api_keys = <<>>

NextCounter ==
  \/ \E p \in Procs :
       /\ ~held.issued
       /\ LoginStart(p, "kb", "a@x.com", PwdGood)
  \/ \E p \in Procs :
       /\ FailedLogins < MaxFailedLogins
       /\ LoginStart(p, "kb", "a@x.com", PwdWrong)
  \/ \E p \in Procs : LoginIncrement(p)
  \/ \E p \in Procs : LoginReset(p)
  \/ \E p \in Procs, r \in CounterRequests :
       /\ held.issued
       /\ BearerRequest(p, "kb", held.access_token, r[1], r[2])
  \/ \E p \in Procs : BearerUser(p)
  \/ \E p \in Procs : UpdateSave(p)
  \/ \E p \in Procs : PasswordSave(p)
  \/ \E p \in Procs : DeleteSave(p)
  \/ \E p \in Procs : ResetStart(p, "kb", 1, PwdNew)
  \/ \E p \in Procs : ResetUser(p)
  \/ \E p \in Procs : ResetSaveUser(p)
  \/ \E p \in Procs : ResetSaveToken(p)

SpecCounter == InitCounter /\ [][NextCounter]_vars

(***************************************************************************)
(* Inactive specification: a@x.com of kb is active; c@x.com of kb was      *)
(* deactivated after a login, after two failed attempts, or while locked.  *)
(* Clients log in as either with the right and a wrong password while      *)
(* time passes.                                                            *)
(***************************************************************************)
\* the documents a deactivated account can hold
InactiveUsers ==
  LET user == Deactivated(User(2, "kb", "c@x.com", hash_password(PwdGood, "s2")))
  IN {[user EXCEPT !.last_login = 0],
      [user EXCEPT !.failed_login_attempts = 2],
      [user EXCEPT !.failed_login_attempts = 5, !.locked_until = LockoutTicks]}

InitInactive ==
  /\ InitSlots
  /\ utc_offset = 0
  /\ settings = DefaultSettings
  /\ redis_client = FALSE
  /\ tenants = DefaultTenants
  /\ \E user \in InactiveUsers :
       users = <<User(1, "kb", "a@x.com", hash_password(PwdGood, "s1")), user>>
  /\ failures = <<0, 0>>
  /\ tokens = <<>>
  /\ completions = <<>>
  /\ api_keys = <<>>

NextInactive ==
  \/ \E p \in Procs, w \in {PwdGood, PwdWrong} :
       LoginStart(p, "kb", "c@x.com", w)
  \/ \E p \in Procs : LoginStart(p, "kb", "a@x.com", PwdGood)
  \/ \E p \in Procs : LoginIncrement(p)
  \/ \E p \in Procs : LoginReset(p)
  \/ Tick(MaxTimeLogin)

SpecInactive == InitInactive /\ [][NextInactive]_vars

(***************************************************************************)
(* Key-owner specification: the stored keys of the key-gate specification  *)
(* and an active key of kb whose user_id has no user document; clients     *)
(* present the keys and an unknown one to GET /me under either tenant.     *)
(***************************************************************************)
OwnerKeys == StoredKeys \o <<APIKey(Len(StoredKeys) + 1, "kb", 3, TRUE, NoTime)>>

\* the stored keys and one that was never issued
OwnerCredentials == {generate_api_key(v) : v \in 1..(Len(OwnerKeys) + 1)}

InitKeyOwner ==
  /\ InitSlots
  /\ utc_offset = 0
  /\ settings = DefaultSettings
  /\ redis_client = FALSE
  /\ tenants = DefaultTenants
  /\ users = <<User(1, "kb", "a@x.com", hash_password(PwdGood, "s1")),
               User(2, "t2", "a@x.com", hash_password(PwdGood, "s2"))>>
  /\ failures = <<0, 0>>
  /\ tokens = <<>>
  /\ completions = <<>>
  /\ api_keys = OwnerKeys

NextKeyOwner ==
  \/ \E p \in Procs, t \in Tenants, c \in OwnerCredentials :
       BearerStart(p, t, c, "me")
  \/ \E p \in Procs : ApiKeyTouch(p)
  \/ \E p \in Procs : ApiKeyUser(p)
  \/ Tick(MaxTimeKeyGate)

SpecKeyOwner == InitKeyOwner /\ [][NextKeyOwner]_vars

(***************************************************************************)
(* Revoke specification: a@x.com and c@x.com of kb each hold an active API *)
(* key, and a key of t2 is stored; the two users present their keys to     *)
(* GET /me and to DELETE /api-keys/{key_id} for every stored key.          *)
(***************************************************************************)
RevokeKeys ==
  <<APIKey(1, "kb", 1, TRUE, NoTime),
    APIKey(2, "kb", 2, TRUE, NoTime),
    APIKey(3, "t2", 3, TRUE, NoTime)>>

\* the keys the users of kb present
RevokeCredentials == {generate_api_key(1), generate_api_key(2)}

InitRevoke ==
  /\ InitSlots
  /\ utc_offset = 0
  /\ settings = DefaultSettings
  /\ redis_client = FALSE
  /\ tenants = DefaultTenants
  /\ users = <<User(1, "kb", "a@x.com", hash_password(PwdGood, "s1")),
               User(2, "kb", "c@x.com", hash_password(PwdGood, "s2")),
               User(3, "t2", "a@x.com", hash_password(PwdGood, "s1"))>>
  /\ failures = <<0, 0, 0>>
  /\ tokens = <<>>
  /\ completions = <<>>
  /\ api_keys = RevokeKeys

NextRevoke ==
  \/ \E p \in Procs, c \in RevokeCredentials : BearerStart(p, "kb", c, "me")
  \/ \E p \in Procs, c \in RevokeCredentials, k \in DOMAIN RevokeKeys :
       BearerRequest(p, "kb", c, "revoke_api_key", KeyPath(k))
  \/ \E p \in Procs : ApiKeyTouch(p)
  \/ \E p \in Procs : ApiKeyUser(p)
  \/ \E p \in Procs : RevokeFind(p)
  \/ \E p \in Procs : RevokeSave(p)

SpecRevoke == InitRevoke /\ [][NextRevoke]_vars

(***************************************************************************)
(* Change specification: the registered user of kb holds a reset token;    *)
(* clients register c@x.com in kb, log in as a@x.com, and send new         *)
(* passwords to POST /change-password and POST /reset-password: one that   *)
(* meets the policy of kb, one without a special character, a short one.   *)
(***************************************************************************)
ChangePasswords == {PwdNew, PwdNoSpecial, PwdShort}

InitChange == InitCounter

NextChange ==
  \/ \E p \in Procs, w \in ChangePasswords : RegisterStart(p, "kb", "c@x.com", w)
  \/ \E p \in Procs : RegisterInsert(p)
  \/ \E p \in Procs :
       /\ ~held.issued
       /\ LoginStart(p, "kb", "a@x.com", PwdGood)
  \/ \E p \in Procs : LoginReset(p)
  \/ \E p \in Procs, w \in ChangePasswords :
       /\ held.issued
       /\ BearerRequest(p, "kb", held.access_token, "change_password",
                        PasswordUpdate(PwdGood, w))
  \/ \E p \in Procs : BearerUser(p)
  \/ \E p \in Procs : PasswordSave(p)
  \/ \E p \in Procs, w \in ChangePasswords : ResetStart(p, "kb", 1, w)
  \/ \E p \in Procs : ResetUser(p)
  \/ \E p \in Procs : ResetSaveUser(p)
  \/ \E p \in Procs : ResetSaveToken(p)

SpecChange == InitChange /\ [][NextChange]_vars
(***************************************************************************)
(* Properties of the lockout state machine, checked under SpecLogin.       *)
(***************************************************************************)
\* the request of the step in which slot p starts one: it is in flight
\* after the step, or the step has answered it
Request(p) == IF pc'[p] # "idle" THEN req'[p] ELSE last'.req

\* the step in which an idle slot p starts a request of kind op
Starts(p, op) ==
  /\ pc[p] = "idle"
  /\ pc'[p] # "idle" \/ (pc' = pc /\ last' # NoLast)
  /\ Request(p).op = op

\* the step in which slot p leaves the suspension point `at`
Leaves(p, at) == pc[p] = at /\ pc'[p] # at

LockedAt(user, t) == user.locked_until # NoTime /\ user.locked_until > t

Limit(u) == get_rate_limit(users[u].tenant_id, "login_attempts")

C1_NotLockedBeforeLimit ==
  \A u \in DOMAIN users : failures[u] < Limit(u) => ~LockedAt(users[u], now)

C1_LockedAtLimit ==
  \A u \in DOMAIN users :
    (failures'[u] # failures[u] /\ failures'[u] >= Limit(u))
      => LockedAt(users'[u], now')

C1_StaysLocked ==
  \A u \in DOMAIN users :
    LockedAt(users[u], now)
      => \/ LockedAt(users'[u], now')
         \/ now' >= users[u].locked_until
         \/ \E p \in Procs : Leaves(p, "login_reset") /\ loc[p].user.id = u

\* C1: a user that starts with failed_login_attempts = 0 and no lock is not
\* locked before its limit-th consecutive wrong-password login, is locked
\* by the limit-th, and then stays locked in every later state until the
\* lockout duration has elapsed or reset_failed_attempts is executed.
C1_LockoutAfterLimit ==
  [] C1_NotLockedBeforeLimit /\ [][C1_LockedAtLimit /\ C1_StaysLocked]_vars

\* the user a login request for (tenant_id, email) is about
LoginTargets(r) ==
  {u \in DOMAIN users :
     users[u].tenant_id = r.tenant_id /\ users[u].email = r.email}

C2_LockedIsRefused(p) ==
  Starts(p, "login") =>
    \A u \in LoginTargets(Request(p)) :
      LockedAt(users[u], now) =>
        /\ pc'[p] = "idle"
        /\ last'.status = 423
        /\ held' = held
        /\ users' = users

C2_ElapsedIsAdmitted(p) ==
  Starts(p, "login") =>
    \A u \in LoginTargets(Request(p)) :
      (/\ users[u].locked_until # NoTime
       /\ now >= users[u].locked_until
       /\ users[u].is_active
       /\ Request(p).password = users[u].password_hash[3])
        => pc'[p] = "login_reset"

C2_SuccessClears(p) ==
  Leaves(p, "login_reset") =>
    LET u == loc[p].user.id
    IN /\ last'.status = 200
       /\ held'.issued
       /\ held'.access_token.payload.exp = now + AccessTicks
       /\ users'[u].failed_login_attempts = 0
       /\ users'[u].locked_until = NoTime
       /\ users'[u].last_login = now

\* C2: a login that finds locked_until in the future is answered 423, with
\* the right password as with a wrong one, issues no tokens and writes
\* nothing; a login of an active user with the right password that finds
\* now >= locked_until goes on to succeed, and its success issues tokens and
\* leaves failed_login_attempts = 0, locked_until = None, last_login = now.
C2_LockedThenAdmitted ==
  [][\A p \in Procs :
       C2_LockedIsRefused(p) /\ C2_ElapsedIsAdmitted(p) /\ C2_SuccessClears(p)]_vars

\* a right-password login that found a lock that had elapsed has succeeded:
\* the document it read carried the lock, the stored one is cleared
C2_Witness ==
  /\ last.req.op = "login"
  /\ last.status = 200
  /\ last.req.password = PwdGood
  /\ last.principal.locked_until # NoTime
  /\ last.principal.locked_until <= now
  /\ held.issued
  /\ users[last.principal.id].locked_until = NoTime
  /\ users[last.principal.id].failed_login_attempts = 0

\* C3: no increment of failed_login_attempts is lost, whatever the
\* interleaving of concurrent wrong-password logins: the stored counter
\* counts every completed failed login, and the account carries a lock as
\* soon as that count reaches the tenant's limit.
C3_NoLostIncrement ==
  \A u \in DOMAIN users :
    /\ users[u].failed_login_attempts = failures[u]
    /\ failures[u] >= Limit(u) => users[u].locked_until # NoTime

(***************************************************************************)
(* Properties of password reset, checked under SpecReset.                  *)
(***************************************************************************)
\* C4: of two reset-password completions that present the same valid reset
\* token, concurrently or not, at most one succeeds.
C4_AtMostOneCompletion ==
  \A k \in DOMAIN completions : completions[k] <= 1

\* the stored Token documents that carry the value a request presents
Presented(r) == {k \in DOMAIN tokens : tokens[k].token_hash = r.token}

C5_SuccessRevokes(p) ==
  Leaves(p, "reset_save_token") => tokens'[loc[p].token.id].is_revoked

C5_RevokedStaysRevoked ==
  \A k \in DOMAIN tokens :
    tokens[k].is_revoked => (k \in DOMAIN tokens' /\ tokens'[k].is_revoked)

C5_RevokedIsRefused(p) ==
  (/\ Starts(p, "reset")
   /\ Presented(Request(p)) # {}
   /\ \A k \in Presented(Request(p)) : tokens[k].is_revoked)
    => /\ pc'[p] = "idle"
       /\ last'.status = 400
       /\ last'.detail = "Invalid or expired reset token"
       /\ users' = users

\* C5: a completion that finishes successfully leaves its token revoked, no
\* step sets is_revoked back to false, and a completion that starts when
\* the presented token is revoked fails with the invalid-or-expired error
\* and writes nothing, so the password hash stays as it was.
C5_SingleUse ==
  [][/\ C5_RevokedStaysRevoked
     /\ \A p \in Procs : C5_SuccessRevokes(p) /\ C5_RevokedIsRefused(p)]_vars

\* a completion succeeded with a token, and a later one that presented the
\* same token under its tenant before its expiry, with a password the
\* policy accepts, has just been refused
C5_Witness ==
  /\ last.req.op = "reset"
  /\ last.note = "revoked"
  /\ last.status = 400
  /\ last.req.new_password = PwdNew
  /\ \E k \in Presented(last.req) :
       completions[k] = 1 /\ tokens[k].is_revoked /\ tokens[k].expires_at > now
  /\ users[1].password_hash[3] = PwdNew

(***************************************************************************)
(* Properties of session tokens, checked under SpecBearer.                 *)
(***************************************************************************)
\* a session token signed with the service's key
Signed(c) == c.prefix = "eyJ" /\ c.sig = SECRET_KEY

\* a request authenticated by get_current_user has just been answered
Authenticated == last.req.op = "bearer" /\ last.principal # NoUser

\* slot p is past get_current_user, inside its endpoint
InEndpoint(p) == pc[p] \in {"update_save", "delete_save", "key_insert"}

\* C6: a correctly signed session token whose tenant_id claim is A is
\* rejected by get_current_user and reported is_valid = false by the
\* validate operation whenever the request's tenant is B # A: no such
\* request gets past the tenant comparison, and its answer is the 401, or
\* is_valid = false, with no principal.
C6_TenantBinding ==
  /\ \A p \in Procs :
       (/\ pc[p] # "idle"
        /\ req[p].op = "bearer"
        /\ Signed(req[p].credential))
         => req[p].credential.payload.tenant_id = req[p].tenant_id
  /\ (/\ last.req.op \in {"bearer", "validate"}
      /\ Signed(last.req.credential)
      /\ last.req.credential.payload.tenant_id # last.req.tenant_id)
       => /\ last.principal = NoUser
          /\ last.req.op = "bearer" => last.status = 401
          /\ last.req.op = "validate" => last.detail = "is_valid=False"

\* a signed, unexpired token of tenant kb, not logged out, was presented
\* to an authenticated endpoint under tenant t2 and refused for the mismatch
C6_Witness ==
  /\ last.req.op = "bearer"
  /\ Signed(last.req.credential)
  /\ last.req.credential.payload.exp > now
  /\ last.req.credential.payload.tenant_id = "kb"
  /\ last.req.tenant_id = "t2"
  /\ last.status = 401
  /\ last.detail = "Token tenant mismatch"

\* a logout under `tenant_id`, before the token's expiry and with Redis
\* connected, has blacklisted `token`: only logout writes the blacklist
LoggedOut(tenant_id, token) ==
  /\ redis_client
  /\ \E e \in blacklist : e.tenant_id = tenant_id /\ e.token = token

C7_RejectedAfterLogout(p) ==
  (/\ Starts(p, "bearer")
   /\ LoggedOut(Request(p).tenant_id, Request(p).credential))
    => /\ pc'[p] = "idle"
       /\ last'.status = 401
       /\ last'.principal = NoUser

\* C7: with Redis connected, after the logout of a token under a tenant
\* before the token's expiry, every later bearer request under that tenant
\* that presents the token is rejected by get_current_user, at every time:
\* by the blacklist up to the expiry, by the expiry check from then on.
C7_NoAuthAfterLogout == [][\A p \in Procs : C7_RejectedAfterLogout(p)]_vars

\* C8: a token whose type claim is refresh is rejected as the bearer
\* credential of an authenticated request; whenever get_current_user
\* returns a user for a session token, the token's type is access.
C8_OnlyAccessAuthenticates ==
  /\ (Authenticated /\ ~is_api_key(last.req.credential))
       => last.req.credential.payload.type = "access"
  /\ (/\ last.req.op = "bearer"
      /\ Signed(last.req.credential)
      /\ last.req.credential.payload.type = "refresh")
       => last.status = 401

(***************************************************************************)
(* Properties of API keys and of soft deletion, checked under SpecAccount. *)
(***************************************************************************)
\* C9: an API-key request never yields a principal whose account is
\* inactive or belongs to another tenant than the request's.
C9_ApiKeyPrincipalActive ==
  /\ (Authenticated /\ is_api_key(last.req.credential))
       => /\ last.principal.is_active
          /\ last.principal.tenant_id = last.req.tenant_id
  /\ \A p \in Procs :
       (InEndpoint(p) /\ is_api_key(req[p].credential))
         => /\ loc[p].user.is_active
            /\ loc[p].user.tenant_id = req[p].tenant_id

C10_NeverReactivated ==
  \A u \in DOMAIN users : ~users[u].is_active => ~users'[u].is_active

C10_BearerIsRejected(p) ==
  (/\ Leaves(p, "bearer_user")
   /\ \E u \in DOMAIN users :
        /\ u = req[p].credential.payload.sub
        /\ users[u].tenant_id = req[p].tenant_id
        /\ ~users[u].is_active)
    => /\ pc'[p] = "idle"
       /\ last'.status = 401
       /\ last'.principal = NoUser

C10_LoginIsInactive(p) ==
  Starts(p, "login") =>
    \A u \in LoginTargets(Request(p)) :
      (~users[u].is_active /\ Request(p).password = users[u].password_hash[3])
        => /\ pc'[p] = "idle"
           /\ last'.status = 401
           /\ last'.detail = "Account is inactive"
           /\ held' = held

\* C10: once is_active is false, no step sets it back to true, every
\* bearer request of the user with a valid token is rejected when
\* get_current_user loads the user, and every login with the right
\* password is answered with the inactive failure and issues no tokens.
C10_InactiveIsFinal ==
  [][/\ C10_NeverReactivated
     /\ \A p \in Procs : C10_BearerIsRejected(p) /\ C10_LoginIsInactive(p)]_vars

(***************************************************************************)
(* Properties of the user store, checked under SpecRegister.               *)
(***************************************************************************)
\* C11: in every reachable state no two distinct User records share the
\* same (tenant_id, email), whatever the interleaving of register and
\* update-current-user operations.
C11_TenantEmailUnique ==
  \A u, v \in DOMAIN users :
    (users[u].tenant_id = users[v].tenant_id /\ users[u].email = users[v].email)
      => u = v

(***************************************************************************)
(* Properties of tenant resolution, checked under SpecTenant.              *)
(***************************************************************************)
\* the step in which an idle slot starts a request of any kind
StartsRequest(p) ==
  /\ pc[p] = "idle"
  /\ pc'[p] # "idle" \/ (pc' = pc /\ last' # NoLast)

\* the identifier is configured and its persisted record is active
Resolvable(x) ==
  /\ x \in DOMAIN TENANTS
  /\ x \in DOMAIN tenants
  /\ tenants[x].is_active

C12_Rejected(p) ==
  /\ pc'[p] = "idle"
  /\ last'.status = 404
  /\ last'.detail = TenantNotFound(Request(p).tenant_id)
  /\ UNCHANGED <<users, tokens, api_keys, held, failures>>

HasFeature(tenant_id, feature) ==
  feature \in TENANTS[tenant_id].settings.features

C13_Refused(p) ==
  (/\ pc[p] \in {"bearer_user", "key_user"}
   /\ req[p].endpoint = "create_api_key"
   /\ ~HasFeature(req[p].tenant_id, "api_keys")
   /\ pc'[p] # pc[p])
    => /\ pc'[p] = "idle"
       /\ last'.status \in {401, 403}
       /\ last'.principal # NoUser
            => (last'.status = 403 /\ last'.detail = KeysDisabled(req[p].tenant_id))

C13_NoKeyForDisabledTenant ==
  /\ DOMAIN api_keys \subseteq DOMAIN api_keys'
  /\ \A k \in DOMAIN api_keys' \ DOMAIN api_keys :
       HasFeature(api_keys'[k].tenant_id, "api_keys")

\* C13: under a tenant whose feature list lacks api_keys, create_api_key
\* answers an authenticated caller with the feature-disabled 403 and never
\* reaches the insert: every key that enters the APIKey store belongs to a
\* tenant that has the feature.
C13_CreateNeedsFeature ==
  [][C13_NoKeyForDisabledTenant /\ \A p \in Procs : C13_Refused(p)]_vars

\* an authenticated user of tenant t2 asked for an API key and was refused
C13_Witness ==
  /\ last.req.op = "bearer"
  /\ last.req.endpoint = "create_api_key"
  /\ last.req.tenant_id = "t2"
  /\ ~HasFeature("t2", "api_keys")
  /\ last.principal # NoUser
  /\ last.principal.tenant_id = "t2"
  /\ last.status = 403
  /\ \A k \in DOMAIN api_keys : api_keys[k].tenant_id # "t2"

\* the stored keys that would authenticate the credential under the tenant
UsableKeys(tenant_id, credential, t) ==
  {k \in DOMAIN api_keys :
     /\ api_keys[k].tenant_id = tenant_id
     /\ api_keys[k].key_hash = hash_api_key(credential)
     /\ api_keys[k].is_active
     /\ api_keys[k].expires_at = NoTime \/ api_keys[k].expires_at >= t}

C14_Gate(p) ==
  (Starts(p, "bearer") /\ is_api_key(Request(p).credential))
    => LET r == Request(p)
       IN /\ ~HasFeature(r.tenant_id, "api_keys")
               => /\ pc'[p] = "idle"
                  /\ last'.status = 403
                  /\ last'.principal = NoUser
          /\ (/\ HasFeature(r.tenant_id, "api_keys")
              /\ UsableKeys(r.tenant_id, r.credential, now) = {})
               => /\ pc'[p] = "idle"
                  /\ last'.status = 401
                  /\ last'.principal = NoUser
          /\ api_keys' = api_keys

C14_NoTouchForDisabledTenant ==
  \A k \in DOMAIN api_keys :
    ~HasFeature(api_keys[k].tenant_id, "api_keys")
      => (k \in DOMAIN api_keys' /\ api_keys'[k] = api_keys[k])

\* C14: an ak_ credential under a tenant without api_keys is answered 403
\* at once, while under a tenant with the feature an unknown, inactive or
\* expired key is answered 401; no APIKey record of a tenant without the
\* feature is ever written, last_used_at included, even when the presented
\* key is a stored, active, unexpired key of that tenant.
C14_FeatureGateFirst ==
  [][C14_NoTouchForDisabledTenant /\ \A p \in Procs : C14_Gate(p)]_vars

\* a stored, active, unexpired key of t2 was presented under t2 and refused
\* with the 403, its record untouched
C14_Witness ==
  /\ last.req.op = "bearer"
  /\ is_api_key(last.req.credential)
  /\ last.req.tenant_id = "t2"
  /\ last.status = 403
  /\ \E k \in UsableKeys("t2", last.req.credential, now) :
       api_keys[k].last_used_at = NoTime

\* the four rules in the order of the claim: whether the password violates
\* the rule under the policy, and the rule's message
Required(policy, key) == key \in DOMAIN policy /\ policy[key]

MinLength(policy) ==
  IF "min_length" \in DOMAIN policy THEN policy.min_length ELSE PASSWORD_MIN_LENGTH

HasChar(password, class) == {i \in DOMAIN password : password[i] \in class} # {}

Rules(policy, password) ==
  <<[violated |-> Len(password) < MinLength(policy),
     message |-> "Password must be at least " \o ToString(MinLength(policy))
                   \o " characters long"],
    [violated |-> Required(policy, "require_special_chars")
                    /\ ~HasChar(password, SpecialChars),
     message |-> "Password must contain at least one special character"],
    [violated |-> Required(policy, "require_numbers")
                    /\ ~HasChar(password, Digits),
     message |-> "Password must contain at least one number"],
    [violated |-> Required(policy, "require_uppercase")
                    /\ ~HasChar(password, UpperCase),
     message |-> "Password must contain at least one uppercase letter"]>>

FirstViolated(policy, password) ==
  LET v == {i \in 1..4 : Rules(policy, password)[i].violated}
  IN IF v = {} THEN 0 ELSE CHOOSE i \in v : \A j \in v : i <= j

\* C15: validate_password_policy answers (false, message of the first
\* violated rule in the order length, special character, digit, uppercase)
\* or (true, ...) when no rule is violated; under min_length 8 with special
\* characters required a 7-character password fails on length even without
\* a special character, a longer one without a special character fails on
\* the special-character rule, and a longer one with one passes.
C15_FirstViolatedRule ==
  last.req.op = "validate"
    => LET policy == last.req.policy
           password == last.req.password
           first == FirstViolated(policy, password)
       IN /\ (first = 0) <=> (last.status = 200)
          /\ first # 0 => /\ last.status = 400
                          /\ last.detail = Rules(policy, password)[first].message
          /\ policy = get_password_policy("kb")
               => /\ Len(password) = 7
                       => last.detail = "Password must be at least 8 characters long"
                  /\ (Len(password) >= 8 /\ ~HasChar(password, SpecialChars))
                       => last.detail =
                            "Password must contain at least one special character"
                  /\ (Len(password) >= 8 /\ HasChar(password, SpecialChars))
                       => last.status = 200

\* a 7-character password without a special character was validated under
\* the policy of kb and failed on its length
C15_Witness ==
  /\ last.req.op = "validate"
  /\ last.req.policy = get_password_policy("kb")
  /\ Len(last.req.password) = 7
  /\ ~HasChar(last.req.password, SpecialChars)
  /\ last.status = 400
  /\ last.detail = "Password must be at least 8 characters long"

LowerCase ==
  {"a", "b", "c", "d", "e", "f", "g", "h", "i", "j", "k", "l", "m", "n",
   "o", "p", "q", "r", "s", "t", "u", "v", "w", "x", "y", "z"}

NonAlphanumeric(password) ==
  {i \in DOMAIN password : password[i] \notin LowerCase \cup UpperCase \cup Digits}

\* C16: when the policy requires special characters, a password that is
\* long enough and contains a character that is neither a letter nor a
\* digit is not refused by the special-character rule.
C16_AnyNonAlphanumericSatisfies ==
  (/\ last.req.op = "validate"
   /\ Required(last.req.policy, "require_special_chars")
   /\ Len(last.req.password) >= MinLength(last.req.policy)
   /\ NonAlphanumeric(last.req.password) # {})
    => last.detail # "Password must contain at least one special character"

\* the external failure of a password login: status, message, no tokens
InvalidCredentials(response) ==
  /\ response.status = 401
  /\ response.detail = "Invalid credentials"
  /\ response.principal = NoUser

\* every store but the users collection
OtherStores == <<tokens, api_keys, tenants, blacklist>>

C17_UnknownEmail(p) ==
  (Starts(p, "login") /\ LoginTargets(Request(p)) = {})
    => /\ pc'[p] = "idle"
       /\ InvalidCredentials(last')
       /\ held' = held
       /\ users' = users
       /\ OtherStores' = OtherStores

C17_WrongPassword(p) ==
  Starts(p, "login")
    => \A u \in LoginTargets(Request(p)) :
         (/\ ~LockedAt(users[u], now)
          /\ ~verify_password(Request(p).password, users[u].password_hash))
           => /\ pc'[p] = "login_increment"
              /\ loc'[p].user = users[u]
              /\ last' = NoLast
              /\ held' = held
              /\ users' = users

C17_WrongPasswordAnswer(p) ==
  Leaves(p, "login_increment")
    => LET u == loc[p].user.id
       IN /\ pc'[p] = "idle"
          /\ last'.req = req[p]
          /\ InvalidCredentials(last')
          /\ held' = held
          /\ users'[u].failed_login_attempts = loc[p].user.failed_login_attempts + 1
          /\ \A v \in DOMAIN users \ {u} : users'[v] = users[v]
          /\ DOMAIN users' = DOMAIN users
          /\ OtherStores' = OtherStores

\* C17: a password login for an email unknown to the tenant and one for an
\* existing, unlocked user with a wrong password are answered with the same
\* status and message and no tokens; for the unknown email no store is
\* written, for the existing user the only write is that user's record,
\* saved with the failed-login counter the handler read plus one.
C17_UniformLoginFailure ==
  [][\A p \in Procs : /\ C17_UnknownEmail(p)
                      /\ C17_WrongPassword(p)
                      /\ C17_WrongPasswordAnswer(p)]_vars

\* a wrong password for the registered user has just been answered, its
\* counter raised, with the answer an unknown email gets
C17_Witness ==
  /\ last.req.op = "login"
  /\ InvalidCredentials(last)
  /\ LoginTargets(last.req) # {}
  /\ \A u \in LoginTargets(last.req) : users[u].failed_login_attempts > 0

\* an unknown email has just been answered, no counter raised
C17_WitnessUnknown ==
  /\ last.req.op = "login"
  /\ InvalidCredentials(last)
  /\ LoginTargets(last.req) = {}
  /\ \A u \in DOMAIN users : users[u].failed_login_attempts = 0

\* the step in which slot p answers a request of kind op
Answers(p, op) ==
  /\ last' # NoLast
  /\ last'.req.op = op
  /\ pc'[p] = "idle"
  /\ IF pc[p] = "idle" THEN pc' = pc ELSE req[p] = last'.req

\* the reset tokens a step stores
Issued == {k \in DOMAIN tokens' : k \notin DOMAIN tokens}

C18_SameResponse(p) ==
  Answers(p, "forgot")
    => /\ last'.status = 200
       /\ last'.detail = ForgotMessage
       /\ last'.principal = NoUser

C18_FailedDeliveryKeepsToken(p) ==
  (Answers(p, "forgot") /\ last'.note = "email_failed")
    => \E k \in Issued :
         /\ tokens'[k].tenant_id = last'.req.tenant_id
         /\ tokens'[k].is_revoked = FALSE

C18_TokensAreKept ==
  \A k \in DOMAIN tokens :
    /\ k \in DOMAIN tokens'
    /\ tokens'[k].token_hash = tokens[k].token_hash

\* C18: every forgot-password request is answered with the same status and
\* message, whether the email is a user's or not and whether the delivery
\* succeeded or failed; a failed delivery leaves the token it was about
\* stored, and no step removes a stored token.
C18_UniformForgotResponse ==
  [][/\ C18_TokensAreKept
     /\ \A p \in Procs : /\ C18_SameResponse(p)
                         /\ C18_FailedDeliveryKeepsToken(p)]_vars

\* a request for a registered email was answered after its delivery failed,
\* and its token is stored
C18_Witness ==
  /\ last.req.op = "forgot"
  /\ last.note = "email_failed"
  /\ last.status = 200
  /\ last.detail = ForgotMessage
  /\ LoginTargets(last.req) # {}
  /\ \E k \in DOMAIN tokens :
       tokens[k].user_id \in LoginTargets(last.req) /\ ~tokens[k].is_revoked

\* C19: every forgot-password request stores a reset token of type reset,
\* not revoked, expiring one hour later, bound to the request's tenant,
\* whether or not the email is a user's.
C19_EveryRequestIssues ==
  [][\A p \in Procs :
       Answers(p, "forgot")
         => \E k \in Issued :
              /\ tokens'[k].tenant_id = last'.req.tenant_id
              /\ tokens'[k].token_type = "reset"
              /\ tokens'[k].is_revoked = FALSE
              /\ tokens'[k].expires_at = now + ResetTicks]_vars

\* the same for the requests whose email is a user's
C19_KnownEmailIssues ==
  [][\A p \in Procs :
       (Answers(p, "forgot") /\ LoginTargets(last'.req) # {})
         => \E k \in Issued :
              /\ tokens'[k].tenant_id = last'.req.tenant_id
              /\ tokens'[k].token_type = "reset"
              /\ tokens'[k].is_revoked = FALSE
              /\ tokens'[k].expires_at = now + ResetTicks]_vars

\* the Token records that make a reset-password request valid at time t
ValidFor(r, t) ==
  {k \in DOMAIN tokens :
     /\ tokens[k].tenant_id = r.tenant_id
     /\ tokens[k].token_hash = r.token
     /\ tokens[k].token_type = "reset"
     /\ tokens[k].is_revoked = FALSE
     /\ tokens[k].expires_at > t}

C20_Refused(p) ==
  (Starts(p, "reset") /\ ValidFor(Request(p), now) = {})
    => /\ pc'[p] = "idle"
       /\ last'.status = 400
       /\ last'.detail = "Invalid or expired reset token"
       /\ users' = users
       /\ tokens' = tokens

C20_Admitted(p) ==
  (Starts(p, "reset") /\ ValidFor(Request(p), now) # {})
    => /\ pc'[p] = "reset_user"
       /\ \E k \in ValidFor(Request(p), now) : loc'[p].token = tokens[k]
       /\ users' = users
       /\ tokens' = tokens

C20_PolicyViolation(p) ==
  (/\ Leaves(p, "reset_user")
   /\ FirstViolated(get_password_policy(req[p].tenant_id), req[p].new_password) # 0)
    => /\ pc'[p] = "idle"
       /\ last'.status = 400
       /\ users' = users
       /\ tokens' = tokens

C20_ChangeNeedsToken ==
  \A u \in DOMAIN users :
    users'[u].password_hash # users[u].password_hash
      => \E p \in Procs :
           /\ Leaves(p, "reset_save_user")
           /\ loc[p].token.user_id = u
           /\ loc[p].token.tenant_id = req[p].tenant_id
           /\ loc[p].token.token_hash = req[p].token
           /\ loc[p].token.token_type = "reset"
           /\ loc[p].token.is_revoked = FALSE
           /\ FirstViolated(get_password_policy(req[p].tenant_id),
                            req[p].new_password) = 0

\* C20: a reset-password request goes on to change a password only if, when
\* it arrives, a Token record has its tenant, the presented value, type
\* reset, is_revoked false and expires_at later than now; otherwise (another
\* tenant's token, a verify token, a revoked or an expired one) it is
\* answered with the invalid-or-expired error; in those cases and when the
\* new password violates the policy no User and no Token record is written.
C20_ResetNeedsValidToken ==
  [][/\ C20_ChangeNeedsToken
     /\ \A p \in Procs : /\ C20_Refused(p)
                         /\ C20_Admitted(p)
                         /\ C20_PolicyViolation(p)]_vars

\* a completion with a valid token and a too short password has just been
\* refused, and the token is still valid
C20_Witness ==
  /\ last.req.op = "reset"
  /\ last.status = 400
  /\ last.detail = "Password must be at least 8 characters long"
  /\ ValidFor(last.req, now) # {}
  /\ users[1].password_hash[3] = PwdGood

\* the refusals the claim lists, each just answered
C20_WitnessOtherTenant ==
  /\ last.req.op = "reset" /\ last.status = 400
  /\ last.detail = "Invalid or expired reset token"
  /\ \E k \in DOMAIN tokens :
       /\ tokens[k].token_hash = last.req.token
       /\ tokens[k].tenant_id # last.req.tenant_id
       /\ tokens[k].token_type = "reset"
       /\ ~tokens[k].is_revoked /\ tokens[k].expires_at > now

C20_WitnessVerify ==
  /\ last.req.op = "reset" /\ last.status = 400
  /\ last.detail = "Invalid or expired reset token"
  /\ \E k \in DOMAIN tokens :
       /\ tokens[k].token_hash = last.req.token
       /\ tokens[k].tenant_id = last.req.tenant_id
       /\ tokens[k].token_type = "verify"
       /\ ~tokens[k].is_revoked /\ tokens[k].expires_at > now

C20_WitnessRevoked ==
  /\ last.req.op = "reset" /\ last.status = 400
  /\ last.detail = "Invalid or expired reset token"
  /\ \E k \in DOMAIN tokens :
       /\ tokens[k].token_hash = last.req.token
       /\ tokens[k].tenant_id = last.req.tenant_id
       /\ tokens[k].token_type = "reset"
       /\ tokens[k].is_revoked /\ tokens[k].expires_at > now

C20_WitnessExpired ==
  /\ last.req.op = "reset" /\ last.status = 400
  /\ last.detail = "Invalid or expired reset token"
  /\ \E k \in DOMAIN tokens :
       /\ tokens[k].token_hash = last.req.token
       /\ tokens[k].tenant_id = last.req.tenant_id
       /\ tokens[k].token_type = "reset"
       /\ ~tokens[k].is_revoked /\ tokens[k].expires_at <= now

(***************************************************************************)
(* Properties of the two writes of a reset completion, checked under       *)
(* SpecCompletion.                                                         *)
(***************************************************************************)
\* the completion of slot p has replaced the password hash of its user
Replaced(p) ==
  /\ pc[p] = "reset_save_token"
  /\ users[loc[p].user.id].password_hash[3] = req[p].new_password

\* C21: no reachable state has the password hash replaced by a completion
\* while the token that completion presented is still unrevoked.
C21_HashAndRevocationTogether ==
  \A p \in Procs :
    Replaced(p) => tokens[loc[p].token.id].is_revoked

(***************************************************************************)
(* Properties of the revocation side-store, checked under SpecSideStore.   *)
(***************************************************************************)
\* the side-store is absent, or its calls fail
Unavailable == ~redis_client \/ redis_down

C22_WritesNothing == Unavailable => blacklist' = blacklist

C22_LogoutSucceeds(p) ==
  (/\ Leaves(p, "bearer_user")
   /\ req[p].endpoint = "logout"
   /\ \E u \in DOMAIN users :
        /\ u = req[p].credential.payload.sub
        /\ users[u].tenant_id = req[p].tenant_id
        /\ users[u].is_active)
    => /\ pc'[p] = "idle"
       /\ last'.status = 200
       /\ last'.detail = "Successfully logged out"

C22_StillAuthenticates(p) ==
  (/\ Starts(p, "bearer")
   /\ Unavailable
   /\ verify_token(Request(p).credential, now) # NoPayload
   /\ verify_token(Request(p).credential, now).tenant_id = Request(p).tenant_id)
    => /\ pc'[p] = "bearer_user"
       /\ last' = NoLast

\* C22: while the side-store is absent or its calls fail, a logout still is
\* answered with success and the blacklist is not written, and every token
\* that is signed, unexpired and of the request's tenant passes the
\* blacklist check, the logged-out ones included.
C22_BestEffortRevocation ==
  [][/\ C22_WritesNothing
     /\ \A p \in Procs : C22_LogoutSucceeds(p) /\ C22_StillAuthenticates(p)]_vars

\* a logout has just been answered with success while the calls of the
\* connected store fail, and nothing is blacklisted
C22_Witness ==
  /\ last.req.op = "bearer"
  /\ last.req.endpoint = "logout"
  /\ last.status = 200
  /\ redis_client /\ redis_down
  /\ blacklist = {}

(***************************************************************************)
(* Properties of the revocation entries, checked under SpecLogout.         *)
(***************************************************************************)
\* the entries a step adds to the blacklist
Inserted == blacklist' \ blacklist

C23_InsertedByLogout ==
  \A e \in Inserted :
    \E p \in Procs :
      /\ Leaves(p, "bearer_user")
      /\ req[p].endpoint = "logout"
      /\ e.tenant_id = req[p].tenant_id
      /\ e.token = req[p].credential
      /\ e.token.payload.exp - now > 0
      /\ e.expires_at - now = e.token.payload.exp - now

C23_EntryWithinTokenLife ==
  \A e \in blacklist : e.expires_at <= e.token.payload.exp

\* C23: a revocation entry is inserted only by a logout, for the request's
\* tenant and token, only when exp - now is positive, with a time to live
\* of exactly exp - now; so in every state each entry expires no later
\* than its token.
C23_EntryTtlIsRemaining ==
  [] C23_EntryWithinTokenLife /\ [][C23_InsertedByLogout]_vars

(***************************************************************************)
(* Properties of the start-up reconciliation, checked under SpecReconcile. *)
(***************************************************************************)
\* the store holds, for the configured tenant, a record equal to the
\* configuration and active
Matches(tenant_id) ==
  /\ tenant_id \in DOMAIN tenants
  /\ tenants[tenant_id].tenant_id = tenant_id
  /\ tenants[tenant_id].is_active = TRUE
  /\ tenants[tenant_id].name = TENANTS[tenant_id].name
  /\ tenants[tenant_id].description =
       (IF "description" \in DOMAIN TENANTS[tenant_id]
        THEN TENANTS[tenant_id].description ELSE "")
  /\ tenants[tenant_id].settings = TENANTS[tenant_id].settings

Reconciled == \A t \in Tenants : Matches(t)

\* the step that ends a run of create_default_tenants
RunEnds == pc[StartupSlot] = "reconcile_write" /\ pc'[StartupSlot] = "idle"

C24_RunReconciles == RunEnds => Reconciled'

C24_Idempotent == Reconciled => tenants' = tenants

C24_OthersUntouched ==
  \A t \in DOMAIN tenants :
    t \notin Tenants => (t \in DOMAIN tenants' /\ tenants'[t] = tenants[t])

C24_NoOtherCreated ==
  \A t \in DOMAIN tenants' : t \in DOMAIN tenants \/ t \in Tenants

\* C24: when create_default_tenants ends, every configured tenant has its
\* record, active and with name, description and settings equal to the
\* configuration, whatever the record held before; a run over a store in
\* that state changes nothing; records of unconfigured tenants are never
\* modified, deleted or created.
C24_ReconciliationUpserts ==
  [][/\ C24_RunReconciles
     /\ C24_Idempotent
     /\ C24_OthersUntouched
     /\ C24_NoOtherCreated]_vars

\* the run has just overwritten a record that was deactivated and held
\* other settings, and left the record of an unconfigured tenant as it was
C24_Witness ==
  /\ last.req.op = "startup"
  /\ last.detail = "Updated tenant"
  /\ last.req.existing.is_active = FALSE
  /\ last.req.existing.settings # TENANTS[last.note].settings
  /\ Reconciled
  /\ "ghost" \in DOMAIN tenants

(***************************************************************************)
(* Properties of tenant isolation of users, checked under SpecTenancy.     *)
(***************************************************************************)
\* the users of other tenants for which the request's credentials are valid
ValidElsewhere(r) ==
  {u \in DOMAIN users :
     /\ users[u].tenant_id # r.tenant_id
     /\ users[u].email = r.email
     /\ verify_password(r.password, users[u].password_hash)}

\* the users of the request's tenant for which they are valid
ValidHere(r) ==
  {u \in DOMAIN users :
     /\ users[u].tenant_id = r.tenant_id
     /\ users[u].email = r.email
     /\ verify_password(r.password, users[u].password_hash)}

\* the records of the tenants other than tenant_id are left as they are
OthersKept(tenant_id) ==
  \A u \in DOMAIN users :
    users[u].tenant_id # tenant_id => (u \in DOMAIN users' /\ users'[u] = users[u])

C25_LookupsStayInTenant ==
  /\ \A t \in Tenants, e \in TenancyEmails :
       get_user_by_email(t, e) # NoUser => get_user_by_email(t, e).tenant_id = t
  /\ \A t \in Tenants, u \in DOMAIN users :
       get_user_by_id(t, u) # NoUser => get_user_by_id(t, u).tenant_id = t
  /\ \A p \in Procs :
       pc[p] \in {"login_increment", "login_reset"}
         => loc[p].user.tenant_id = req[p].tenant_id

C25_CrossTenantStart(p) ==
  (Starts(p, "login") /\ ValidElsewhere(Request(p)) # {} /\ ValidHere(Request(p)) = {})
    => /\ users' = users
       /\ held' = held
       /\ pc'[p] # "idle" => pc'[p] = "login_increment"
       /\ pc'[p] = "idle"
            => \/ InvalidCredentials(last')
               \/ /\ last'.status = 423
                  /\ last'.principal = NoUser
                  /\ \E u \in LoginTargets(Request(p)) : LockedAt(users[u], now)

C25_CrossTenantEnd(p) ==
  Leaves(p, "login_increment")
    => /\ InvalidCredentials(last')
       /\ held' = held
       /\ OthersKept(req[p].tenant_id)

C25_SuccessInTenant(p) ==
  Leaves(p, "login_reset")
    => /\ last'.principal.tenant_id = req[p].tenant_id
       /\ OthersKept(req[p].tenant_id)

C25_WitnessSameEmail ==
  /\ last.req.op = "login"
  /\ last.req.tenant_id = "t2"
  /\ last.req.email = "a@x.com"
  /\ InvalidCredentials(last)
  /\ users[2].failed_login_attempts > 0
  /\ users[1].failed_login_attempts = 0 /\ users[1].last_login = NoTime

(***************************************************************************)
(* Properties of the responses of get_current_user, checked under          *)
(* SpecBearer.                                                             *)
(***************************************************************************)
\* the response rejects a request that presented a session token
RejectsToken(response) ==
  /\ response.req.op = "bearer"
  /\ ~is_api_key(response.req.credential)
  /\ response.principal = NoUser
  /\ response.status # 200

C26_SameRejection ==
  (RejectsToken(last) /\ RejectsToken(last'))
    => /\ last'.status = last.status
       /\ last'.detail = last.detail

\* C26: any two rejections of a bearer-token request carry the same status
\* and the same detail, whichever check failed.
C26_OneGenericRejection == [][C26_SameRejection]_vars

(***************************************************************************)
(* Properties of the order of the steps of a login, checked under          *)
(* SpecOrder.                                                              *)
(***************************************************************************)
\* the lock check of the request finds its user locked: the request ends
\* there, whatever the password, and records nothing
C27_LockedEndsRequest(p) ==
  Starts(p, "login")
    => \A u \in LoginTargets(Request(p)) :
         LockedAt(users[u], now)
           => /\ pc'[p] = "idle"
              /\ last'.status = 423
              /\ users' = users
              /\ held' = held

\* the request goes on to increment_failed_attempts only past the lock check
\* and a failed verification
C27_IncrementAfterFailure(p) ==
  (pc[p] # "login_increment" /\ pc'[p] = "login_increment")
    => /\ Starts(p, "login")
       /\ ~LockedAt(loc'[p].user, now)
       /\ ~verify_password(req'[p].password, loc'[p].user.password_hash)

\* it goes on to reset_failed_attempts and the tokens only past the lock
\* check and a successful verification of an active user
C27_ResetAfterSuccess(p) ==
  (pc[p] # "login_reset" /\ pc'[p] = "login_reset")
    => /\ Starts(p, "login")
       /\ ~LockedAt(loc'[p].user, now)
       /\ verify_password(req'[p].password, loc'[p].user.password_hash)
       /\ loc'[p].user.is_active

\* the recording itself happens only in those two later steps
C27_RecordingIsLast ==
  /\ \A u \in DOMAIN users :
       users'[u] # users[u]
         => \E p \in Procs :
              /\ Leaves(p, "login_increment") \/ Leaves(p, "login_reset")
              /\ loc[p].user.id = u
  /\ held' # held => \E p \in Procs : Leaves(p, "login_reset")

\* C27: in a login request the lock check comes first and ends the request
\* when the user is locked, so the password plays no part; the failure is
\* recorded only after a failed verification, and the success is recorded
\* and tokens issued only after a successful verification of an active user.
C27_LoginStepOrder ==
  [][/\ C27_RecordingIsLast
     /\ \A p \in Procs : /\ C27_LockedEndsRequest(p)
                         /\ C27_IncrementAfterFailure(p)
                         /\ C27_ResetAfterSuccess(p)]_vars

\* a locked user has just presented a wrong password: the request ended at
\* the lock check
C27_Witness ==
  /\ last.req.op = "login"
  /\ last.req.password = PwdWrong
  /\ last.status = 423
  /\ \E u \in LoginTargets(last.req) :
       LockedAt(users[u], now) /\ users[u].failed_login_attempts = Limit(u)

\* the deactivated user has just presented the right password: no tokens
C27_WitnessInactive ==
  /\ last.req.op = "login"
  /\ last.req.password = PwdGood
  /\ last.detail = "Account is inactive"
  /\ held.issued = FALSE

(***************************************************************************)
(* Properties of the lockout threshold, checked under SpecLimit.           *)
(***************************************************************************)
\* the tenant's login_attempts when its configuration sets one, otherwise
\* the setting MAX_LOGIN_ATTEMPTS
Threshold(tenant_id) ==
  LET s == TENANTS[tenant_id].settings
  IN IF "rate_limits" \in DOMAIN s /\ "login_attempts" \in DOMAIN s.rate_limits
     THEN s.rate_limits.login_attempts
     ELSE settings.MAX_LOGIN_ATTEMPTS

C28_LocksAtThreshold(p) ==
  Leaves(p, "login_increment")
    => LET u == loc[p].user.id
           n == loc[p].user.failed_login_attempts + 1
       IN /\ users'[u].failed_login_attempts = n
          /\ n >= Threshold(req[p].tenant_id)
               => users'[u].locked_until = now + LockoutTicks
          /\ n < Threshold(req[p].tenant_id)
               => users'[u].locked_until = loc[p].user.locked_until

C28_ChangeIsNotRetroactive == settings' # settings => users' = users

\* C28: increment_failed_attempts locks the user exactly when the counter
\* it saves reaches the tenant's login_attempts, or MAX_LOGIN_ATTEMPTS for
\* a tenant that sets none, as the setting stands at that moment; a change
\* of the setting changes no user record.
C28_ThresholdIsOverrideOrDefault ==
  [][/\ C28_ChangeIsNotRetroactive
     /\ \A p \in Procs : C28_LocksAtThreshold(p)]_vars

(***************************************************************************)
(* Properties of an elapsed lock, checked under SpecLogin.                 *)
(***************************************************************************)
\* the lock of the document was set and has run out by time t
Elapsed(user, t) == user.locked_until # NoTime /\ user.locked_until <= t

\* the passing of time writes no user record: nothing resets on expiry
C29_ExpiryWritesNothing == now' # now => users' = users

\* a login that finds the lock elapsed is not refused as locked, and the
\* check itself writes nothing
C29_ElapsedIsUnlocked(p) ==
  Starts(p, "login")
    => \A u \in LoginTargets(Request(p)) :
         Elapsed(users[u], now)
           => /\ users' = users
              /\ pc'[p] \in {"login_increment", "login_reset"}
              /\ loc'[p].user = users[u]
              /\ pc'[p] = "login_increment"
                   <=> ~verify_password(Request(p).password, users[u].password_hash)

\* the wrong-password login that read an elapsed lock saves a counter above
\* the limit and a new lock
C29_NextFailureRelocks(p) ==
  (Leaves(p, "login_increment") /\ loc[p].user.locked_until # NoTime)
    => LET u == loc[p].user.id
       IN /\ users'[u].failed_login_attempts = loc[p].user.failed_login_attempts + 1
          /\ users'[u].failed_login_attempts > Limit(u)
          /\ users'[u].locked_until = now + LockoutTicks

\* a stored lock, running or elapsed, always comes with a counter at or
\* above the limit
C29_LockKeepsCounter ==
  \A u \in DOMAIN users :
    users[u].locked_until # NoTime => users[u].failed_login_attempts >= Limit(u)

\* C29: an elapsed lock leaves failed_login_attempts as it was: no step
\* resets it on expiry, and the user is treated as unlocked; the next
\* wrong-password login therefore saves a counter above the limit and locks
\* the account again at once.
C29_RelockAfterExpiry ==
  [][/\ C29_ExpiryWritesNothing
     /\ C29_LockKeepsCounter
     /\ \A p \in Procs : C29_ElapsedIsUnlocked(p) /\ C29_NextFailureRelocks(p)]_vars

\* the lock ran out, and one more wrong password has just locked the user
\* again with the counter above the limit
C29_Witness ==
  /\ last.req.op = "login"
  /\ InvalidCredentials(last)
  /\ now >= LockoutTicks
  /\ \E u \in LoginTargets(last.req) :
       /\ users[u].failed_login_attempts = Limit(u) + 1
       /\ users[u].locked_until = now + LockoutTicks

(***************************************************************************)
(* Properties of the writers of the lockout fields, under SpecCounter.     *)
(***************************************************************************)
\* the lockout fields of a user document
LockFields(user) == <<user.failed_login_attempts, user.locked_until>>

\* a step of increment_failed_attempts or reset_failed_attempts
LockoutWriter ==
  \E p \in Procs : Leaves(p, "login_increment") \/ Leaves(p, "login_reset")

\* C30: the stored failed_login_attempts and locked_until of a user change
\* only in a step of increment_failed_attempts or reset_failed_attempts: the
\* lock check, the email update, change-password, the deactivation and the
\* completion of a password reset leave them as they are, also when they
\* overlap a failed login of the same user.
C30_OnlyLockoutWriters ==
  [][(\E u \in DOMAIN users : LockFields(users'[u]) # LockFields(users[u]))
       => LockoutWriter]_vars

(***************************************************************************)
(* Properties of the login of a deactivated account, under SpecInactive.   *)
(***************************************************************************)
\* slot p starts a login with the right password for the unlocked,
\* deactivated user u
InactiveLogin(p, u) ==
  /\ Starts(p, "login")
  /\ u \in LoginTargets(Request(p))
  /\ ~users[u].is_active
  /\ ~LockedAt(users[u], now)
  /\ verify_password(Request(p).password, users[u].password_hash)

\* C31: a login with the right password for an unlocked user whose
\* is_active is false is answered 401 "Account is inactive", which is not
\* the answer to bad credentials; no tokens are issued and no user record
\* is written, so the counter, locked_until and last_login stay as they are.
C31_InactiveLoginWritesNothing ==
  [][\A p \in Procs : \A u \in DOMAIN users :
       InactiveLogin(p, u)
         => /\ pc'[p] = "idle"
            /\ last'.status = 401
            /\ last'.detail = "Account is inactive"
            /\ ~InvalidCredentials(last')
            /\ last'.principal = NoUser
            /\ held' = held
            /\ users' = users]_vars

\* the deactivated user, with failed attempts on record and an elapsed
\* lock, has just been refused as inactive
C31_Witness ==
  /\ last.req.op = "login"
  /\ last.detail = "Account is inactive"
  /\ \E u \in LoginTargets(last.req) :
       /\ users[u].failed_login_attempts >= 5
       /\ Elapsed(users[u], now)

\* the deactivated user with two failed attempts and no lock has just
\* been refused as inactive
C31_WitnessCounted ==
  /\ last.req.op = "login"
  /\ last.detail = "Account is inactive"
  /\ \E u \in LoginTargets(last.req) :
       /\ users[u].failed_login_attempts = 2
       /\ users[u].locked_until = NoTime

(***************************************************************************)
(* Properties of a login on a locked account, under SpecLogin.             *)
(***************************************************************************)
\* slot p starts a login for user u while u is locked
LockedLogin(p, u) ==
  /\ Starts(p, "login")
  /\ u \in LoginTargets(Request(p))
  /\ LockedAt(users[u], now)

\* C32: a login attempted while the user is locked writes no user record:
\* failed_login_attempts, locked_until and last_login stay as they are, and
\* the request ends there, so it cannot prolong the lock later either.
C32_LockedLoginWritesNothing ==
  [][\A p \in Procs : \A u \in DOMAIN users :
       LockedLogin(p, u)
         => /\ users'[u].failed_login_attempts = users[u].failed_login_attempts
            /\ users'[u].locked_until = users[u].locked_until
            /\ users'[u].last_login = users[u].last_login
            /\ users' = users
            /\ failures' = failures
            /\ pc'[p] = "idle"]_vars

\* a locked user has just been refused, with the right password and with a
\* wrong one, after the clock has moved inside the lockout window
C32_Witness ==
  /\ last.req.op = "login"
  /\ last.status = 423
  /\ now > 0
  /\ \E u \in LoginTargets(last.req) :
       /\ LockedAt(users[u], now)
       /\ users[u].locked_until < now + LockoutTicks

(***************************************************************************)
(* Properties of last_used_at, under SpecKeyOwner.                         *)
(***************************************************************************)
\* the step answers the API-key request of slot p with a rejection
RejectsKey(p) ==
  /\ Answers(p, "bearer")
  /\ is_api_key(last'.req.credential)
  /\ last'.principal = NoUser
  /\ last'.status \in {401, 403}

\* a request rejected before the key is saved writes no APIKey
C33_RejectedWritesNothing(p) ==
  (RejectsKey(p) /\ pc[p] = "idle") => api_keys' = api_keys

\* a request that has saved last_used_at is not rejected afterwards
C33_TouchedIsAuthenticated(p) == Leaves(p, "key_user") => ~RejectsKey(p)

\* the APIKey collection changes only by the save of last_used_at on the
\* key the request found
C33_OnlyLastUsedChanges ==
  api_keys' # api_keys
    => \E p \in Procs :
         /\ Leaves(p, "key_touch")
         /\ api_keys' = [api_keys EXCEPT ![loc[p].key.id] =
                           [loc[p].key EXCEPT !.last_used_at = now]]

Deactivates(k) == api_keys[k].is_active /\ ~api_keys'[k].is_active

\* key k is the key the request of slot p names, in the tenant of the
\* request, owned by the authenticated caller
OwnKey(p, k) ==
  /\ req[p].body.key_id = k
  /\ api_keys[k].tenant_id = req[p].tenant_id
  /\ api_keys[k].user_id = loc[p].user.id

\* a key is deactivated only by the save of a revocation of the caller's
\* own key
C34_OnlyOwnKeyDeactivated ==
  \A k \in DOMAIN api_keys :
    Deactivates(k) => \E p \in Procs : Leaves(p, "revoke_save") /\ OwnKey(p, k)

\* a revocation that names another user's or another tenant's key is
\* answered not-found and writes nothing
C34_OthersNotFound(p) ==
  (Leaves(p, "revoke_find") /\ \A k \in DOMAIN api_keys : ~OwnKey(p, k))
    => /\ last'.status = 404
       /\ pc'[p] = "idle"
       /\ api_keys' = api_keys

\* no step sets is_active of a stored key back to true
C34_InactiveStaysInactive ==
  \A k \in DOMAIN api_keys : ~api_keys[k].is_active => ~api_keys'[k].is_active

\* a request that presents an inactive key is rejected
C34_InactiveIsRejected(p) ==
  (/\ Starts(p, "bearer")
   /\ is_api_key(Request(p).credential)
   /\ \A k \in DOMAIN api_keys :
        api_keys[k].key_hash = hash_api_key(Request(p).credential)
          => ~api_keys[k].is_active)
    => /\ pc'[p] = "idle"
       /\ last'.status = 401
       /\ last'.principal = NoUser

\* C34: revoke_api_key deactivates only the key whose tenant, id and owner
\* are the request's tenant, the requested id and the caller; a revocation
\* of anyone else's key is not-found and writes nothing; an inactive key
\* never authenticates again, since no step sets is_active back to true.
C34_RevocationIsFinal ==
  [][/\ C34_OnlyOwnKeyDeactivated
     /\ C34_InactiveStaysInactive
     /\ \A p \in Procs : C34_OthersNotFound(p) /\ C34_InactiveIsRejected(p)]_vars

(***************************************************************************)
(* Properties of the login's saves beside a password change, under         *)
(* SpecCounter.                                                            *)
(***************************************************************************)
\* the fields of a user document that the lockout writers do not set
KeptFields(user) ==
  <<user.tenant_id, user.email, user.password_hash, user.is_active,
    user.is_verified>>

\* C35: the saves of increment_failed_attempts and reset_failed_attempts
\* change only failed_login_attempts, locked_until and last_login of the
\* stored record: a password hash that a reset or a change of password has
\* stored since the login read the user is still there afterwards.
C35_LoginKeepsNewHash ==
  [][\A p \in Procs :
       (Leaves(p, "login_increment") \/ Leaves(p, "login_reset"))
         => \A u \in DOMAIN users :
              /\ users'[u].password_hash = users[u].password_hash
              /\ KeptFields(users'[u]) = KeptFields(users[u])]_vars

(***************************************************************************)
(* Properties of the stored password hashes, under SpecChange.             *)
(***************************************************************************)
\* the password a stored hash was made of
HashedPassword(password_hash) == password_hash[3]

\* C36: register, the completion of a password reset and change-password
\* validate the new password against the policy of the user's tenant before
\* they store its hash, so every stored hash is the hash of a password that
\* meets the minimum length and has every character class the policy of
\* the tenant requires.
C36_StoredHashesMeetPolicy ==
  \A u \in DOMAIN users :
    validate_password_policy(users[u].tenant_id,
                             HashedPassword(users[u].password_hash)).ok

\* the hashes stored by register and by the completion of a reset belong to
\* passwords that meet the policy of the tenant
C36_RegisterAndResetValidate ==
  [][\A p \in Procs :
       (Leaves(p, "register_insert") \/ Leaves(p, "reset_save_user"))
         => \A u \in DOMAIN users' :
              (u \notin DOMAIN users
                 \/ users'[u].password_hash # users[u].password_hash)
                => validate_password_policy(
                     users'[u].tenant_id,
                     HashedPassword(users'[u].password_hash)).ok]_vars

(***************************************************************************)
(* Properties of POST /validate beside the blacklist, under SpecBearer.    *)
(***************************************************************************)
\* the side-store answers, and holds a live entry for the token under the
\* tenant of the request
Blacklisted(r) ==
  /\ redis_client
  /\ ~redis_down
  /\ is_token_blacklisted(r.tenant_id, r.credential, now)

\* C37: with the side-store available, a token that logout has blacklisted
\* is reported is_valid = false by POST /validate for as long as the entry
\* lives, as bearer authentication rejects it: the two agree on every
\* unexpired token under a tenant.
C37_ValidateHonoursBlacklist ==
  [][\A p \in Procs :
       (Answers(p, "validate") /\ Blacklisted(last'.req))
         => last'.detail = "is_valid=False"]_vars

=============================================================================
